---- MODULE Spec2Model ----
(***************************************************************************)
(* Moderation state engine of the Telegram admin bot (src/bot.py): the     *)
(* per-chat configuration store with its JSON persistence, the filter      *)
(* matcher, the flood detector and the warn escalation, as the handlers    *)
(* of bot.py run them.                                                     *)
(*                                                                         *)
(* Texts are sequences of one-character strings, so that lower-casing and  *)
(* substring search are computed and not assumed.  Dictionary keys are     *)
(* str(id) values, written Str(id).  Time is counted in whole seconds.     *)
(***************************************************************************)
EXTENDS Integers, Sequences, FiniteSets, TLC

VARIABLES
    data,      \* the module-level store `data` (bot.py:103)
    file,      \* the content of DATA_FILE
    running,   \* a process is serving updates (main() has called load_data)
    clock,     \* time.time()
    ev,        \* the update (or process event) handled last
    out,       \* the platform calls issued by the handler that ran last, in order
    burst,     \* history: per chat and user, position in a burst that began a fresh flood window
    run,       \* history: per chat and user, length of the current run of messages 3 seconds long
    older,     \* history: per chat, pairs <<v, w>> of configured filter words, v inserted before w
    tasks,     \* the handler coroutines in flight, each suspended at an await
    recent,    \* history: per chat and user, time and outcome of the last 5 messages the flood detector counted
    issued,    \* history: <<chat, user, n>> for each warn count n whose ban or notice has been sent
    bans,      \* history: <<chat, user>> for each ban call issued since /resetwarns last named the user
    LAST_REQUEST_TIME,  \* boot.py: the module-level LAST_REQUEST_TIME (boot.py:6)
    presses    \* boot.py: the handle_button_press coroutines, each idle, at its await or returned

vars == <<data, file, running, clock, ev, out, burst, run, older, recent, tasks, issued,
          bans, LAST_REQUEST_TIME, presses>>

---------------------------------------------------------------------------
(* Bounds of the model *)

MaxTime == 9
MaxWarnCount == 3
MaxTasks == 3

(* Constants of the program *)

DEFAULT_MAX_WARNS == 3
FLOOD_WINDOW == 7
FLOOD_LIMIT == 5
MUTE_SECONDS == 3600

DEFAULT_WELCOME == "Welcome, {mention}!"

GroupChats == {100, 200}
Users == {1, 2}

---------------------------------------------------------------------------
(* Text: str.lower(), `in`, LINK_RE, str.isdigit(), int() *)

UpperChars == <<"A","B","C","D","E","F","G","H","I","J","K","L","M",
                "N","O","P","Q","R","S","T","U","V","W","X","Y","Z">>
LowerChars == <<"a","b","c","d","e","f","g","h","i","j","k","l","m",
                "n","o","p","q","r","s","t","u","v","w","x","y","z">>

LowerChar(ch) ==
    IF \E i \in DOMAIN UpperChars : UpperChars[i] = ch
    THEN LowerChars[CHOOSE i \in DOMAIN UpperChars : UpperChars[i] = ch]
    ELSE ch

Lower(t) == [i \in 1..Len(t) |-> LowerChar(t[i])]

\* Python `w in t` on strings: w occurs in t as a contiguous substring
Contains(w, t) ==
    \E i \in 0..(Len(t) - Len(w)) : SubSeq(t, i + 1, i + Len(w)) = w

LinkPatterns ==
    { <<"h","t","t","p",":","/","/">>,
      <<"h","t","t","p","s",":","/","/">>,
      <<"t",".","m","e","/">>,
      <<"t","e","l","e","g","r","a","m",".","m","e","/">> }

\* LINK_RE without its t.me and telegram.me alternatives
HasLink_http(t) ==
    \E p \in {q \in LinkPatterns : q[1] = "h"} : Contains(p, Lower(t))

\* LINK_RE.search(text) with re.IGNORECASE
HasLink(t) == \E p \in LinkPatterns : Contains(p, Lower(t))

---------------------------------------------------------------------------
(* The store *)

Str(i) == [s |-> i]
KeyId(k) == IF "s" \in DOMAIN k THEN k.s ELSE k.i

EmptyMap == [k \in {} |-> TRUE]

EmptyStore == [chats |-> EmptyMap, users |-> EmptyMap, groups |-> EmptyMap]

DefaultChat ==
    [ max_warns    |-> DEFAULT_MAX_WARNS,
      welcome_on   |-> TRUE,
      welcome_text |-> DEFAULT_WELCOME,
      antispam_on  |-> TRUE,
      filters      |-> <<>>,
      warns        |-> EmptyMap,
      flood        |-> EmptyMap,
      slowmode     |-> 0 ]

\* d[k] = v on a dict: the value is replaced or the key added
Put(m, k, v) == [x \in DOMAIN m \cup {k} |-> IF x = k THEN v ELSE m[x]]

\* dict.get(k, dflt)
Get(m, k, dflt) == IF k \in DOMAIN m THEN m[k] ELSE dflt

\* the chat id used as the key without str()
ChatKey_int(chat_id) == [i |-> chat_id]

ChatKey(chat_id) == Str(chat_id)

\* ensure_chat that stores the default entry on every call
ensure_chat_overwrite(d, chat_id) ==
    [d EXCEPT !.chats = Put(@, ChatKey(chat_id), DefaultChat)]

ensure_chat(d, chat_id) ==
    IF ChatKey(chat_id) \in DOMAIN d.chats
    THEN d
    ELSE [d EXCEPT !.chats = Put(@, ChatKey(chat_id), DefaultChat)]

\* the handlers of this model are registered for group chats
touch_user_and_chat_for_stats(d, u, chat_id) ==
    [d EXCEPT !.users = Put(@, Str(u), TRUE),
              !.groups = Put(@, Str(chat_id), TRUE)]

SetConf(d, chat_id, conf) == [d EXCEPT !.chats[ChatKey(chat_id)] = conf]

---------------------------------------------------------------------------
(* The filter dictionary: an insertion-ordered dict word -> {"warn": bool}, *)
(* kept as the sequence of its items in iteration order.                    *)

FilterWords(fs) == {fs[i].word : i \in DOMAIN fs}

FilterIndex(fs, w) == CHOOSE i \in DOMAIN fs : fs[i].word = w

\* the assignment done as delete-and-insert: an existing key moves to the end
SetFilter_moveToEnd(fs, w, flag) ==
    Append(SelectSeq(fs, LAMBDA e : e.word # w), [word |-> w, warn |-> flag])

\* filters[word] = {"warn": flag}: an existing key keeps its place
SetFilter(fs, w, flag) ==
    IF w \in FilterWords(fs)
    THEN [fs EXCEPT ![FilterIndex(fs, w)] = [word |-> w, warn |-> flag]]
    ELSE Append(fs, [word |-> w, warn |-> flag])

\* the deletion done by position: the first item goes, whatever its word
DelFilter_first(fs, w) == Tail(fs)

\* del filters[word]
DelFilter(fs, w) == SelectSeq(fs, LAMBDA e : e.word # w)

\* Matches with `word == text` in place of `word in text`
Matches_exact(fs, text) == {i \in DOMAIN fs : fs[i].word = text}

Matches(fs, text) == {i \in DOMAIN fs : Contains(fs[i].word, text)}

\* the item at which `for word, cfg in filters.items(): if word in text` stops
FirstMatch(fs, text) ==
    CHOOSE i \in Matches(fs, text) : \A j \in Matches(fs, text) : i <= j

---------------------------------------------------------------------------
(* JSON: json.dump writes a dict as an object, a list of key/value members *)
(* in iteration order whose keys are strings; json.load builds the dicts   *)
(* back from the members.                                                  *)

JsonKey(k) == Str(KeyId(k))

RECURSIVE Members(_, _)
Members(m, ks) ==
    IF ks = {} THEN <<>>
    ELSE LET k == CHOOSE x \in ks : \A y \in ks : KeyId(x) <= KeyId(y)
         IN  <<[key |-> JsonKey(k), val |-> m[k]]>> \o Members(m, ks \ {k})

DumpMap(m) == Members(m, DOMAIN m)

DumpFilters(fs) ==
    [i \in DOMAIN fs |-> [key |-> fs[i].word, val |-> [warn |-> fs[i].warn]]]

DumpChat(conf) ==
    [ max_warns    |-> conf.max_warns,
      welcome_on   |-> conf.welcome_on,
      welcome_text |-> conf.welcome_text,
      antispam_on  |-> conf.antispam_on,
      filters      |-> DumpFilters(conf.filters),
      warns        |-> DumpMap(conf.warns),
      flood        |-> DumpMap(conf.flood),
      slowmode     |-> conf.slowmode ]

Dump(d) ==
    [ chats  |-> DumpMap([k \in DOMAIN d.chats |-> DumpChat(d.chats[k])]),
      users  |-> DumpMap(d.users),
      groups |-> DumpMap(d.groups) ]

\* an object's members as a dict: a repeated key keeps its last value
ParseMap(ms) ==
    [k \in {ms[i].key : i \in DOMAIN ms} |->
        ms[CHOOSE i \in DOMAIN ms :
              ms[i].key = k /\ \A j \in DOMAIN ms : ms[j].key = k => j <= i].val]

ParseFilters(ms) ==
    [i \in DOMAIN ms |-> [word |-> ms[i].key, warn |-> ms[i].val.warn]]

ParseChat(o) ==
    [ max_warns    |-> o.max_warns,
      welcome_on   |-> o.welcome_on,
      welcome_text |-> o.welcome_text,
      antispam_on  |-> o.antispam_on,
      filters      |-> ParseFilters(o.filters),
      warns        |-> ParseMap(o.warns),
      flood        |-> ParseMap(o.flood),
      slowmode     |-> o.slowmode ]

Parse(doc) ==
    LET chats == ParseMap(doc.chats)
    IN  [ chats  |-> [k \in DOMAIN chats |-> ParseChat(chats[k])],
          users  |-> ParseMap(doc.users),
          groups |-> ParseMap(doc.groups) ]

\* a value json.load returns that is no dict (None, a list, a number, a
\* str), held by its JSON type; subscripting it with a str key, or testing
\* a key in None or in a number, raises TypeError
NotMapping(type) == [k \in {[json |-> type]} |-> TRUE]

IsMapping(v) == \A k \in DOMAIN v : "json" \notin DOMAIN k

TypeOf(v) == IF IsMapping(v) THEN "object" ELSE (CHOOSE k \in DOMAIN v : TRUE).json

\* the value of one top-level key of the document: absent, an object with
\* these members, or a value of another JSON type
JsonField(type, members) == [json |-> type, members |-> members]

\* what data[key] is after json.load and data.setdefault(key, {})
LoadField(fv) ==
    CASE fv.json = "absent" -> EmptyMap
      [] fv.json = "object" -> ParseMap(fv.members)
      [] OTHER              -> NotMapping(fv.json)

LoadChats(fv) ==
    IF fv.json = "object"
    THEN LET chats == ParseMap(fv.members)
         IN  [k \in DOMAIN chats |-> ParseChat(chats[k])]
    ELSE LoadField(fv)

FileMissing == [kind |-> "missing"]
\* well-formed JSON whose top level is no object
FileValue(type) == [kind |-> "value", json |-> type]
\* well-formed JSON whose top level is an object with these three keys
FileObject(chats, users, groups) ==
    [kind |-> "object", chats |-> chats, users |-> users, groups |-> groups]
FileGarbage == [kind |-> "garbage"]
FileJson(doc) == [kind |-> "json", doc |-> doc]

\* save_data(): the file is rewritten with the whole store
save_data(d) == FileJson(Dump(d))

\* load_data whose second handler lets the exception through
load_data_reraise(f) ==
    CASE f.kind = "missing" -> [data |-> EmptyStore, raised |-> FALSE]
      [] f.kind = "garbage" -> [data |-> EmptyStore, raised |-> TRUE]
      [] OTHER              -> [data |-> Parse(f.doc), raised |-> FALSE]

\* load_data(): the store it leaves in `data`, and whether an exception leaves it
\* a top-level value that is no dict has no setdefault: the AttributeError of
\* line 113 is caught at 117; a dict keeps the values its three keys have
load_data(f) ==
    CASE f.kind = "missing" -> [data |-> EmptyStore, raised |-> FALSE]
      [] f.kind = "garbage" -> [data |-> EmptyStore, raised |-> FALSE]
      [] f.kind = "value"   -> [data |-> EmptyStore, raised |-> FALSE]
      [] f.kind = "object"  -> [data |-> [ chats  |-> LoadChats(f.chats),
                                           users  |-> LoadField(f.users),
                                           groups |-> LoadField(f.groups) ],
                                raised |-> FALSE]
      [] OTHER              -> [data |-> Parse(f.doc), raised |-> FALSE]

---------------------------------------------------------------------------
(* Platform calls a handler issues, recorded in `out` *)

NoUser == 0

Call(call, what, user, a, b) ==
    [call |-> call, what |-> what, user |-> user, a |-> a, b |-> b]

DeleteMessage == Call("delete_message", "", NoUser, 0, 0)
BanChatMember(u) == Call("ban_chat_member", "", u, 0, 0)
RestrictMute(u, until) == Call("restrict_chat_member", "mute", u, until, 0)
SendWarned(u, cur, max) == Call("send_message", "warned", u, cur, max)
SendFloodMute(u) == Call("send_message", "flood_mute", u, 0, 0)
ReplyWarned(u, cur, max) == Call("reply", "warned", u, cur, max)
ReplyBanned(u) == Call("reply", "banned", u, 0, 0)
Reply(what) == Call("reply", what, NoUser, 0, 0)
LogAction(what, u) == Call("log_action", what, u, 0, 0)
Raised(exc) == Call("raise", exc, NoUser, 0, 0)

Result(d, f, calls) == [data |-> d, file |-> f, out |-> calls]

---------------------------------------------------------------------------
(* apply_filters_and_antispam: the group message handler *)

\* FilterEscalate that clears the count once the ban is due
FilterEscalate_reset(conf, uid) ==
    LET cur == Get(conf.warns, uid, 0) + 1
    IN  [ conf   |-> [conf EXCEPT !.warns =
                        Put(@, uid, IF cur >= conf.max_warns THEN 0 ELSE cur)],
          cur    |-> cur,
          banned |-> cur >= conf.max_warns ]

\* FilterEscalate that raises every stored count of the chat with the sender's
FilterEscalate_everyone(conf, uid) ==
    LET cur == Get(conf.warns, uid, 0) + 1
    IN  [ conf   |-> [conf EXCEPT !.warns =
                        [k \in DOMAIN @ \cup {uid} |-> Get(@, k, 0) + 1]],
          cur    |-> cur,
          banned |-> cur >= conf.max_warns ]

\* FilterEscalate that compares with DEFAULT_MAX_WARNS, not the chat's max_warns
FilterEscalate_default(conf, uid) ==
    LET cur == Get(conf.warns, uid, 0) + 1
    IN  [ conf   |-> [conf EXCEPT !.warns = Put(@, uid, cur)],
          cur    |-> cur,
          banned |-> cur >= DEFAULT_MAX_WARNS ]

\* FilterEscalate with the threshold compared by > instead of >=
FilterEscalate_gt(conf, uid) ==
    LET cur == Get(conf.warns, uid, 0) + 1
    IN  [ conf   |-> [conf EXCEPT !.warns = Put(@, uid, cur)],
          cur    |-> cur,
          banned |-> cur > conf.max_warns ]

\* lines 642-647: the warn count of the sender goes up by one and is compared
FilterEscalate(conf, uid) ==
    LET cur == Get(conf.warns, uid, 0) + 1
    IN  [ conf   |-> [conf EXCEPT !.warns = Put(@, uid, cur)],
          cur    |-> cur,
          banned |-> cur >= conf.max_warns ]

\* FloodCount with the expiry compared by >= instead of >
FloodCount_ge(flood, uid, now) ==
    LET u0 == Get(flood, uid, [count |-> 0, ts |-> now])
        u1 == IF now - u0.ts >= FLOOD_WINDOW THEN [count |-> 0, ts |-> now] ELSE u0
    IN  [u1 EXCEPT !.count = @ + 1]

\* lines 673-680: the window of the sender after this message is counted
FloodCount(flood, uid, now) ==
    LET u0 == Get(flood, uid, [count |-> 0, ts |-> now])
        u1 == IF now - u0.ts > FLOOD_WINDOW THEN [count |-> 0, ts |-> now] ELSE u0
    IN  [u1 EXCEPT !.count = @ + 1]

\* the limit compared by > instead of >=
FloodFlagged_gt(u) == u.count > FLOOD_LIMIT

FloodFlagged(u) == u.count >= FLOOD_LIMIT

\* the mute length taken as minutes=1
MuteUntil_minute(now) == now + 60

\* line 682: until = utcnow() + timedelta(hours=1)
MuteUntil(now) == now + MUTE_SECONDS

\* the handler without the test of antispam_on at line 664
apply_filters_and_antispam_always(d, f, chat_id, sender, text, now) ==
    LET d1   == touch_user_and_chat_for_stats(d, sender, chat_id)
        f1   == save_data(d1)
        d2   == ensure_chat(d1, chat_id)
        conf == d2.chats[ChatKey(chat_id)]
        uid  == Str(sender)
        lt   == Lower(text)
    IN  IF Matches(conf.filters, lt) # {}
        THEN LET cfg == conf.filters[FirstMatch(conf.filters, lt)]
             IN  IF cfg.warn
                 THEN LET e  == FilterEscalate(conf, uid)
                          d3 == SetConf(d2, chat_id, e.conf)
                      IN  Result(d3, save_data(d3),
                                 IF e.banned
                                 THEN <<DeleteMessage, BanChatMember(sender),
                                        LogAction("auto_ban", sender)>>
                                 ELSE <<DeleteMessage,
                                        SendWarned(sender, e.cur, conf.max_warns)>>)
                 ELSE Result(d2, f1, <<DeleteMessage>>)
        ELSE IF HasLink(lt)
        THEN Result(d2, f1, <<DeleteMessage, LogAction("link", sender)>>)
        ELSE LET u == FloodCount(conf.flood, uid, now)
             IN  IF FloodFlagged(u)
                 THEN LET d3 == SetConf(d2, chat_id,
                                   [conf EXCEPT !.flood =
                                       Put(@, uid, [count |-> 0, ts |-> now])])
                      IN  Result(d3, save_data(d3),
                                 <<RestrictMute(sender, MuteUntil(now)),
                                   SendFloodMute(sender),
                                   LogAction("flood", sender)>>)
                 ELSE Result(SetConf(d2, chat_id,
                                 [conf EXCEPT !.flood = Put(@, uid, u)]),
                             f1, <<>>)

apply_filters_and_antispam(d, f, chat_id, sender, text, now) ==
    LET d1   == touch_user_and_chat_for_stats(d, sender, chat_id)
        f1   == save_data(d1)
        d2   == ensure_chat(d1, chat_id)
        conf == d2.chats[ChatKey(chat_id)]
        uid  == Str(sender)
        lt   == Lower(text)
    IN  IF Matches(conf.filters, lt) # {}
        THEN LET cfg == conf.filters[FirstMatch(conf.filters, lt)]
             IN  IF cfg.warn
                 THEN LET e  == FilterEscalate(conf, uid)
                          d3 == SetConf(d2, chat_id, e.conf)
                      IN  Result(d3, save_data(d3),
                                 IF e.banned
                                 THEN <<DeleteMessage, BanChatMember(sender),
                                        LogAction("auto_ban", sender)>>
                                 ELSE <<DeleteMessage,
                                        SendWarned(sender, e.cur, conf.max_warns)>>)
                 ELSE Result(d2, f1, <<DeleteMessage>>)
        ELSE IF conf.antispam_on
        THEN IF HasLink(lt)
             THEN Result(d2, f1, <<DeleteMessage, LogAction("link", sender)>>)
             ELSE LET u == FloodCount(conf.flood, uid, now)
                  IN  IF FloodFlagged(u)
                      THEN LET d3 == SetConf(d2, chat_id,
                                        [conf EXCEPT !.flood =
                                            Put(@, uid, [count |-> 0, ts |-> now])])
                           IN  Result(d3, save_data(d3),
                                      <<RestrictMute(sender, MuteUntil(now)),
                                        SendFloodMute(sender),
                                        LogAction("flood", sender)>>)
                      ELSE Result(SetConf(d2, chat_id,
                                      [conf EXCEPT !.flood = Put(@, uid, u)]),
                                  f1, <<>>)
        ELSE Result(d2, f1, <<>>)

---------------------------------------------------------------------------
(* The admin commands.  `admin` is the answer of is_admin for the caller,  *)
(* `target` the user the command resolves (NoUser: none), `args` the       *)
(* command's argument tokens.                                              *)

\* the refusal followed by save_data()
AdminsOnly_saved(d, f) == Result(d, save_data(d), <<Reply("Admins only.")>>)

\* lines 288-290
AdminsOnly(d, f) == Result(d, f, <<Reply("Admins only.")>>)

\* WarnEscalate that clears the count once the ban is due
WarnEscalate_reset(conf, uid) ==
    LET cur == Get(conf.warns, uid, 0) + 1
    IN  [ conf   |-> [conf EXCEPT !.warns =
                        Put(@, uid, IF cur >= conf.max_warns THEN 0 ELSE cur)],
          cur    |-> cur,
          banned |-> cur >= conf.max_warns ]

\* WarnEscalate with the threshold compared by > instead of >=
WarnEscalate_gt(conf, uid) ==
    LET cur == Get(conf.warns, uid, 0) + 1
    IN  [ conf   |-> [conf EXCEPT !.warns = Put(@, uid, cur)],
          cur    |-> cur,
          banned |-> cur > conf.max_warns ]

\* lines 380-384
WarnEscalate(conf, uid) ==
    LET cur == Get(conf.warns, uid, 0) + 1
    IN  [ conf   |-> [conf EXCEPT !.warns = Put(@, uid, cur)],
          cur    |-> cur,
          banned |-> cur >= conf.max_warns ]

warn(d, f, chat_id, admin, target) ==
    IF ~admin THEN AdminsOnly(d, f)
    ELSE LET d1   == ensure_chat(d, chat_id)
             conf == d1.chats[ChatKey(chat_id)]
         IN  IF target = NoUser
             THEN Result(d1, f, <<Reply("Reply to a user to warn.")>>)
             ELSE LET e  == WarnEscalate(conf, Str(target))
                      d2 == SetConf(d1, chat_id, e.conf)
                  IN  Result(d2, save_data(d2),
                             IF e.banned
                             THEN <<BanChatMember(target), ReplyBanned(target),
                                    LogAction("warn_ban", target)>>
                             ELSE <<ReplyWarned(target, e.cur, conf.max_warns),
                                    LogAction("warn", target)>>)

\* resetwarns without its save_data() call
resetwarns_unsaved(d, f, chat_id, admin, target) ==
    IF ~admin THEN AdminsOnly(d, f)
    ELSE LET d1   == ensure_chat(d, chat_id)
             conf == d1.chats[ChatKey(chat_id)]
         IN  IF target = NoUser
             THEN Result(d1, f, <<Reply("Specify a user (reply or @user).")>>)
             ELSE Result(SetConf(d1, chat_id,
                                 [conf EXCEPT !.warns = Put(@, Str(target), 0)]),
                         f, <<Reply("Warnings reset.")>>)

\* resetwarns with warns.pop(uid) in place of warns[uid] = 0
resetwarns_pop(d, f, chat_id, admin, target) ==
    IF ~admin THEN AdminsOnly(d, f)
    ELSE LET d1   == ensure_chat(d, chat_id)
             conf == d1.chats[ChatKey(chat_id)]
         IN  IF target = NoUser
             THEN Result(d1, f, <<Reply("Specify a user (reply or @user).")>>)
             ELSE LET d2 == SetConf(d1, chat_id,
                               [conf EXCEPT !.warns =
                                   [k \in DOMAIN @ \ {Str(target)} |-> @[k]]])
                  IN  Result(d2, save_data(d2), <<Reply("Warnings reset.")>>)

resetwarns(d, f, chat_id, admin, target) ==
    IF ~admin THEN AdminsOnly(d, f)
    ELSE LET d1   == ensure_chat(d, chat_id)
             conf == d1.chats[ChatKey(chat_id)]
         IN  IF target = NoUser
             THEN Result(d1, f, <<Reply("Specify a user (reply or @user).")>>)
             ELSE LET d2 == SetConf(d1, chat_id,
                               [conf EXCEPT !.warns = Put(@, Str(target), 0)])
                  IN  Result(d2, save_data(d2), <<Reply("Warnings reset.")>>)

---------------------------------------------------------------------------
(* str.isdigit() and int() on an argument token *)

Digits == <<"0","1","2","3","4","5","6","7","8","9">>

DigitVal(ch) == (CHOOSE i \in DOMAIN Digits : Digits[i] = ch) - 1

isdigit(tok) ==
    /\ Len(tok) > 0
    /\ \A i \in DOMAIN tok : \E j \in DOMAIN Digits : Digits[j] = tok[i]

RECURSIVE int(_)
int(tok) ==
    IF Len(tok) = 0 THEN 0
    ELSE 10 * int(SubSeq(tok, 1, Len(tok) - 1)) + DigitVal(tok[Len(tok)])

setmaxwarns(d, f, chat_id, admin, args) ==
    IF ~admin THEN AdminsOnly(d, f)
    ELSE IF Len(args) = 0 \/ ~isdigit(args[1])
    THEN Result(d, f, <<Reply("Usage: /setmaxwarns N")>>)
    ELSE LET d1   == ensure_chat(d, chat_id)
             conf == d1.chats[ChatKey(chat_id)]
             d2   == SetConf(d1, chat_id, [conf EXCEPT !.max_warns = int(args[1])])
         IN  Result(d2, save_data(d2), <<Reply("Max warns set.")>>)

\* line 463: len(args) > 1 and args[1].lower() == "warn"
WarnFlag(args) == Len(args) > 1 /\ Lower(args[2]) = <<"w","a","r","n">>

\* the word stored as typed
FilterWord_raw(args) == args[1]

\* line 462: word = args[0].lower()
FilterWord(args) == Lower(args[1])

addfilter(d, f, chat_id, admin, args) ==
    IF ~admin THEN AdminsOnly(d, f)
    ELSE IF Len(args) = 0
    THEN Result(d, f, <<Reply("Usage: /addfilter <word> [warn]")>>)
    ELSE LET d1   == ensure_chat(d, chat_id)
             conf == d1.chats[ChatKey(chat_id)]
             d2   == SetConf(d1, chat_id,
                        [conf EXCEPT !.filters =
                            SetFilter(@, FilterWord(args), WarnFlag(args))])
         IN  Result(d2, save_data(d2), <<Reply("Filter added.")>>)

rmfilter(d, f, chat_id, admin, args) ==
    IF ~admin THEN AdminsOnly(d, f)
    ELSE IF Len(args) = 0
    THEN Result(d, f, <<Reply("Usage: /rmfilter <word>")>>)
    ELSE LET d1   == ensure_chat(d, chat_id)
             conf == d1.chats[ChatKey(chat_id)]
             word == Lower(args[1])
         IN  IF word \in FilterWords(conf.filters)
             THEN LET d2 == SetConf(d1, chat_id,
                               [conf EXCEPT !.filters = DelFilter(@, word)])
                  IN  Result(d2, save_data(d2), <<Reply("Filter removed.")>>)
             ELSE Result(d1, f, <<Reply("No such filter.")>>)

OnOff == { <<"o","n">>, <<"o","f","f">> }

antispam(d, f, chat_id, admin, args) ==
    IF ~admin THEN AdminsOnly(d, f)
    ELSE LET d1   == ensure_chat(d, chat_id)
             conf == d1.chats[ChatKey(chat_id)]
         IN  IF Len(args) = 0 \/ Lower(args[1]) \notin OnOff
             THEN Result(d1, f, <<Reply("Use /antispam on|off")>>)
             ELSE LET d2 == SetConf(d1, chat_id,
                               [conf EXCEPT !.antispam_on =
                                   (Lower(args[1]) = <<"o","n">>)])
                  IN  Result(d2, save_data(d2), <<Reply("Anti-spam set.")>>)

---------------------------------------------------------------------------
(* /slowmode: int() on a token that str.isdigit() has not screened *)

\* int(s) accepts an optional sign before the digits
Unsigned(tok) ==
    IF Len(tok) > 0 /\ tok[1] \in {"+", "-"} THEN Tail(tok) ELSE tok

\* int(tok) returns; otherwise it raises ValueError
IntOk(tok) == isdigit(Unsigned(tok))

IntOf(tok) ==
    IF Len(tok) > 0 /\ tok[1] = "-" THEN 0 - int(Unsigned(tok)) ELSE int(Unsigned(tok))

SetSlowModeDelay(secs) == Call("set_chat_slow_mode_delay", "", NoUser, secs, 0)

\* lines 512-528
slowmode(d, f, chat_id, admin, args) ==
    IF ~admin THEN AdminsOnly(d, f)
    ELSE LET d1   == ensure_chat(d, chat_id)
             conf == d1.chats[ChatKey(chat_id)]
         IN  IF Len(args) = 0
             THEN Result(d1, f, <<Reply("Usage: /slowmode <seconds|off>")>>)
             ELSE LET arg == Lower(args[1])
                  IN  IF arg # <<"o","f","f">> /\ ~IntOk(arg)
                      THEN Result(d1, f, <<Raised("ValueError")>>)
                      ELSE LET secs == IF arg = <<"o","f","f">> THEN 0 ELSE IntOf(arg)
                               d2   == SetConf(d1, chat_id, [conf EXCEPT !.slowmode = secs])
                           IN  Result(d2, save_data(d2),
                                      <<SetSlowModeDelay(secs), Reply("Slow mode set.")>>)

---------------------------------------------------------------------------
(* /mute and /ban with an optional duration *)

\* until_date=None
NoDate == 0

Units == <<"s", "m", "h", "d">>
UnitSeconds == <<1, 60, 3600, 86400>>

\* re.fullmatch(r"(\d+)([smhd])", s, re.IGNORECASE)
DurationMatches(tok) ==
    /\ Len(tok) >= 2
    /\ isdigit(SubSeq(tok, 1, Len(tok) - 1))
    /\ \E i \in DOMAIN Units : Units[i] = LowerChar(tok[Len(tok)])

\* lines 168-177; none: the function returns None
parse_duration(tok) ==
    IF ~DurationMatches(tok)
    THEN [none |-> TRUE, secs |-> 0]
    ELSE [none |-> FALSE,
          secs |-> int(SubSeq(tok, 1, Len(tok) - 1))
                   * UnitSeconds[CHOOSE i \in DOMAIN Units : Units[i] = LowerChar(tok[Len(tok)])]]

\* `parse_duration(context.args[0]) if context.args else None`, then `if duration`
Duration(args) ==
    IF Len(args) = 0 THEN 0
    ELSE IF parse_duration(args[1]).none THEN 0 ELSE parse_duration(args[1]).secs

UntilDate(args, now) == IF Duration(args) # 0 THEN now + Duration(args) ELSE NoDate

BanUntil(u, until) == Call("ban_chat_member", "", u, until, 0)

\* lines 294-307
mute(d, f, chat_id, admin, target, args, now) ==
    IF ~admin THEN AdminsOnly(d, f)
    ELSE IF target = NoUser
    THEN Result(d, f, <<Reply("Reply to a user to mute.")>>)
    ELSE Result(d, f, <<RestrictMute(target, UntilDate(args, now)),
                        Reply("Muted."), LogAction("mute", target)>>)

\* lines 329-346
ban(d, f, chat_id, admin, target, args, now) ==
    IF ~admin THEN AdminsOnly(d, f)
    ELSE IF target = NoUser
    THEN Result(d, f, <<Reply("Reply to a user to ban.")>>)
    ELSE Result(d, f, <<BanUntil(target, UntilDate(args, now)),
                        Reply("Banned."), LogAction("ban", target)>>)

---------------------------------------------------------------------------
(* telegram_admin_bot_full.py: the group message handler.  Its warn and    *)
(* ensure_chat have the text of bot.py's; `admin` is the answer of         *)
(* is_admin for the sender, `target` the author of the message the sender  *)
(* replies to (NoUser: the message is no reply).                           *)

\* lines 857-886
filters_and_antispam_enforcer(d, f, chat_id, sender, admin, target, text) ==
    LET d1   == ensure_chat(d, chat_id)
        conf == d1.chats[ChatKey(chat_id)]
        lt   == Lower(text)
    IN  IF Matches(conf.filters, lt) # {}
        THEN IF conf.filters[FirstMatch(conf.filters, lt)].warn
             THEN LET r == warn(d1, f, chat_id, admin, target)
                  IN  Result(r.data, r.file, <<DeleteMessage>> \o r.out)
             ELSE Result(d1, f, <<DeleteMessage>>)
        ELSE IF conf.antispam_on /\ HasLink(lt)
        THEN Result(d1, f, <<DeleteMessage>>)
        ELSE Result(d1, f, <<>>)

---------------------------------------------------------------------------
(* Inputs of the model *)

T_hi     == <<"h","i">>
T_spammy == <<"t","h","i","s"," ","i","s"," ","S","P","A","M","M","Y">>
T_am     == <<"I"," ","A","m">>
T_link   == <<"s","e","e"," ","T",".","m","e","/","x">>

Texts == {T_hi, T_spammy, T_am, T_link}

T_spamlink == <<"S","p","a","m"," ","h","t","t","p","s",":","/","/","x">>

W_spam == <<"s","p","a","m">>
W_SPAM == <<"S","p","A","M">>
W_am   == <<"a","m">>
W_warn == <<"W","a","r","n">>

FilterArgs == { <<W_spam>>, <<W_SPAM, W_warn>>, <<W_am>>, <<W_am, W_warn>> }
RmFilterArgs == { <<W_SPAM>>, <<W_am>> }
MaxWarnsArgs == { <<<<"1">>>>, <<<<"2">>>> }
AntispamArgs == { <<<<"O","N">>>>, <<<<"o","f","f">>>>, <<<<"m","a","y","b","e">>>> }

SpecChats == {100}

Event(op, chat, user, admin, target, args, text, now) ==
    [ op |-> op, chat |-> chat, user |-> user, admin |-> admin,
      target |-> target, args |-> args, text |-> text, now |-> now ]

ProcessEvent(op) == Event(op, 0, NoUser, FALSE, NoUser, <<>>, <<>>, clock)
Command(op, chat, admin, target, args) ==
    Event(op, chat, NoUser, admin, target, args, <<>>, clock)

\* the guard that keeps the warn counts of the model finite
WithinBounds(d) ==
    \A k \in DOMAIN d.chats : \A u \in DOMAIN d.chats[k].warns :
        d.chats[k].warns[u] <= MaxWarnCount

---------------------------------------------------------------------------
(* History variables *)

Last5(q) == IF Len(q) > 5 THEN SubSeq(q, Len(q) - 4, Len(q)) ELSE q

\* the indices of the restrict_chat_member calls among the calls
Mutes(o) == {i \in DOMAIN o : o[i].call = "restrict_chat_member"}

NoBurst == [pos |-> 0, t0 |-> 0, after |-> FALSE]
NoRun == [n |-> 0, t0 |-> 0, after |-> FALSE]

Pairs == GroupChats \X Users

\* the stored warn count of a user in a chat that exists
WarnOfConf(d, c, u) == Get(d.chats[ChatKey(c)].warns, Str(u), 0)

\* the configuration a message of this chat is judged by
ConfOf(d, c) == ensure_chat(d, c).chats[ChatKey(c)]

\* the message reaches the flood detector
Qualifies(conf, text) ==
    /\ Matches(conf.filters, Lower(text)) = {}
    /\ conf.antispam_on
    /\ ~HasLink(text)

\* the message starts a window: the sender has none, or an expired one
Fresh(conf, u, now) ==
    \/ Str(u) \notin DOMAIN conf.flood
    \/ now - conf.flood[Str(u)].ts > FLOOD_WINDOW

NextBurst(b, fresh, now) ==
    [ pos   |-> IF fresh THEN 1 ELSE IF b.pos \in 1..4 THEN b.pos + 1 ELSE 0,
      t0    |-> IF fresh THEN now ELSE IF b.pos \in 1..4 THEN b.t0 ELSE 0,
      after |-> b.pos = 5 ]

NextRun(r, now) ==
    IF r.n \in 1..4 /\ now - r.t0 <= 3
    THEN [n |-> r.n + 1, t0 |-> r.t0, after |-> FALSE]
    ELSE [n |-> 1, t0 |-> now, after |-> r.n = 5]

---------------------------------------------------------------------------
(* Handler coroutines.  A task is suspended at the await named by pc; the  *)
(* code between two awaits runs without interruption.                      *)

TaskIds == 1..MaxTasks

\* pc: "idle" (not started), "get_chat_member", "delete", "calls", "done"
\* conf: the dict `conf` bound at line 631; cfg: the matched filter's dict
\* todo: the platform calls the rest of the handler awaits, in order
\* made: the platform calls the handler has made, in order
\* cur: the local `cur` (0: not assigned); overlap: history, another task
\*      was in flight when cur was assigned
NoTask ==
    [ pc |-> "idle", op |-> "", chat |-> 0, user |-> NoUser, admin |-> FALSE,
      target |-> NoUser, conf |-> DefaultChat, cfg |-> FALSE, todo |-> <<>>,
      made |-> <<>>, cur |-> 0, overlap |-> FALSE ]

\* boot.py handle_button_press: pc is "idle" (no press yet), "answer" (at
\* `await query.answer()`), "accepted" or "rejected"; current_time is the
\* local read at line 23
NoPress == [pc |-> "idle", current_time |-> 0]

InFlight(ts) == {h \in TaskIds : ts[h].pc \notin {"idle", "done"}}

---------------------------------------------------------------------------
(* The process: import, main() and its end *)

Init ==
    /\ data = EmptyStore
    /\ file \in {FileMissing, FileGarbage}
    /\ running = FALSE
    /\ clock = 0
    /\ ev = ProcessEvent("import")
    /\ out = <<>>
    /\ burst = [p \in Pairs |-> NoBurst]
    /\ run = [p \in Pairs |-> NoRun]
    /\ older = [c \in GroupChats |-> {}]
    /\ tasks = [h \in TaskIds |-> NoTask]
    /\ issued = {}
    /\ recent = [p \in Pairs |-> <<>>]
    /\ bans = {}
    /\ LAST_REQUEST_TIME = 0
    /\ presses = [h \in TaskIds |-> NoPress]

\* main(): load_data(), then the handlers serve
Main ==
    /\ ~running
    /\ LET r == load_data(file)
       IN  /\ data' = r.data
           /\ out' = IF r.raised THEN <<Raised("load_data")>> ELSE <<>>
           /\ running' = ~r.raised
    /\ ev' = ProcessEvent("main")
    /\ UNCHANGED <<file, clock, burst, run, older, tasks, issued, recent, bans, LAST_REQUEST_TIME, presses>>

\* the process ends and is started again: the new one has what load_data reads
Restart ==
    /\ running
    /\ LET r == load_data(file)
       IN  /\ data' = r.data
           /\ out' = IF r.raised THEN <<Raised("load_data")>> ELSE <<>>
           /\ running' = ~r.raised
    /\ ev' = ProcessEvent("restart")
    /\ burst' = [p \in Pairs |-> NoBurst]
    /\ run' = [p \in Pairs |-> NoRun]
    /\ UNCHANGED <<file, clock, older, tasks, issued, recent, bans, LAST_REQUEST_TIME, presses>>

Tick ==
    /\ clock < MaxTime
    /\ \E t \in (clock + 1)..MaxTime : clock' = t
    /\ UNCHANGED <<data, file, running, ev, out, burst, run, older, tasks, issued, recent, bans, LAST_REQUEST_TIME, presses>>

Apply(r) ==
    /\ WithinBounds(r.data)
    /\ data' = r.data
    /\ file' = r.file
    /\ out' = r.out

---------------------------------------------------------------------------
(* The handlers, one update at a time *)

Message(c, u, text) ==
    /\ running
    /\ Apply(apply_filters_and_antispam(data, file, c, u, text, clock))
    /\ ev' = Event("message", c, u, FALSE, NoUser, <<>>, text, clock)
    /\ UNCHANGED <<running, clock, burst, run, older, tasks, issued, recent, bans, LAST_REQUEST_TIME, presses>>

\* the same handler, with the flood histories of the sender kept
MessageTimed(c, u, text) ==
    /\ running
    /\ Apply(apply_filters_and_antispam(data, file, c, u, text, clock))
    /\ ev' = Event("message", c, u, FALSE, NoUser, <<>>, text, clock)
    /\ LET conf == ConfOf(data, c)
       IN  IF Qualifies(conf, text)
           THEN /\ burst' = [burst EXCEPT ![<<c, u>>] =
                                NextBurst(@, Fresh(conf, u, clock), clock)]
                /\ run' = [run EXCEPT ![<<c, u>>] =
                                IF conf.filters = <<>> THEN NextRun(@, clock) ELSE NoRun]
           ELSE /\ burst' = burst
                /\ run' = [run EXCEPT ![<<c, u>>] = NoRun]
    /\ UNCHANGED <<running, clock, older, tasks, issued, recent, bans, LAST_REQUEST_TIME, presses>>

\* the same handler, with the last 5 counted messages of the sender kept
MessageLogged(c, u, text) ==
    LET r == apply_filters_and_antispam(data, file, c, u, text, clock)
    IN  /\ running
        /\ Apply(r)
        /\ ev' = Event("message", c, u, FALSE, NoUser, <<>>, text, clock)
        /\ recent' = IF Qualifies(ConfOf(data, c), text)
                      THEN [recent EXCEPT ![<<c, u>>] =
                              Last5(Append(@, [t |-> clock, muted |-> Mutes(r.out) # {}]))]
                      ELSE recent
        /\ UNCHANGED <<running, clock, burst, run, older, tasks, issued, bans, LAST_REQUEST_TIME, presses>>

Warn(c, admin, target) ==
    /\ running
    /\ Apply(warn(data, file, c, admin, target))
    /\ ev' = Command("warn", c, admin, target, <<>>)
    /\ UNCHANGED <<running, clock, burst, run, older, tasks, issued, recent, bans, LAST_REQUEST_TIME, presses>>

ResetWarns(c, admin, target) ==
    /\ running
    /\ Apply(resetwarns(data, file, c, admin, target))
    /\ ev' = Command("resetwarns", c, admin, target, <<>>)
    /\ UNCHANGED <<running, clock, burst, run, older, tasks, issued, recent, bans, LAST_REQUEST_TIME, presses>>

SetMaxWarns(c, admin, args) ==
    /\ running
    /\ Apply(setmaxwarns(data, file, c, admin, args))
    /\ ev' = Command("setmaxwarns", c, admin, NoUser, args)
    /\ UNCHANGED <<running, clock, burst, run, older, tasks, issued, recent, bans, LAST_REQUEST_TIME, presses>>

AddFilter(c, admin, args) ==
    /\ running
    /\ Apply(addfilter(data, file, c, admin, args))
    /\ ev' = Command("addfilter", c, admin, NoUser, args)
    /\ older' = IF admin /\ Len(args) > 0
                     /\ Lower(args[1]) \notin FilterWords(ConfOf(data, c).filters)
                THEN [older EXCEPT ![c] = @ \cup
                        {<<v, Lower(args[1])>> : v \in FilterWords(ConfOf(data, c).filters)}]
                ELSE older
    /\ UNCHANGED <<running, clock, burst, run, tasks, issued, recent, bans, LAST_REQUEST_TIME, presses>>

RmFilter(c, admin, args) ==
    /\ running
    /\ Apply(rmfilter(data, file, c, admin, args))
    /\ ev' = Command("rmfilter", c, admin, NoUser, args)
    /\ older' = IF admin /\ Len(args) > 0
                THEN [older EXCEPT ![c] =
                        {p \in @ : p[1] # Lower(args[1]) /\ p[2] # Lower(args[1])}]
                ELSE older
    /\ UNCHANGED <<running, clock, burst, run, tasks, issued, recent, bans, LAST_REQUEST_TIME, presses>>

Antispam(c, admin, args) ==
    /\ running
    /\ Apply(antispam(data, file, c, admin, args))
    /\ ev' = Command("antispam", c, admin, NoUser, args)
    /\ UNCHANGED <<running, clock, burst, run, older, tasks, issued, recent, bans, LAST_REQUEST_TIME, presses>>

Slowmode(c, admin, args) ==
    /\ running
    /\ Apply(slowmode(data, file, c, admin, args))
    /\ ev' = Command("slowmode", c, admin, NoUser, args)
    /\ UNCHANGED <<running, clock, burst, run, older, tasks, issued, recent, bans, LAST_REQUEST_TIME, presses>>

Mute(c, admin, target, args) ==
    /\ running
    /\ Apply(mute(data, file, c, admin, target, args, clock))
    /\ ev' = Command("mute", c, admin, target, args)
    /\ UNCHANGED <<running, clock, burst, run, older, tasks, issued, recent, bans, LAST_REQUEST_TIME, presses>>

Ban(c, admin, target, args) ==
    /\ running
    /\ Apply(ban(data, file, c, admin, target, args, clock))
    /\ ev' = Command("ban", c, admin, target, args)
    /\ UNCHANGED <<running, clock, burst, run, older, tasks, issued, recent, bans, LAST_REQUEST_TIME, presses>>

Enforce(c, u, admin, target, text) ==
    /\ running
    /\ Apply(filters_and_antispam_enforcer(data, file, c, u, admin, target, text))
    /\ ev' = Event("message", c, u, admin, target, <<>>, text, clock)
    /\ UNCHANGED <<running, clock, burst, run, older, tasks, issued, recent, bans, LAST_REQUEST_TIME, presses>>

(* Spec: the escalation and filter scenarios.  One chat, its admins' warn,  *)
(* filter and threshold commands, messages of one sender, and restarts.    *)

Senders == {1}
PolicyTexts == {T_hi, T_spammy, T_am}

Next ==
    \/ Main
    \/ Restart
    \/ \E c \in SpecChats, u \in Senders, text \in PolicyTexts : Message(c, u, text)
    \/ \E c \in SpecChats, target \in Users \cup {NoUser} : Warn(c, TRUE, target)
    \/ \E c \in SpecChats, target \in Users \cup {NoUser} : ResetWarns(c, TRUE, target)
    \/ \E c \in SpecChats, args \in MaxWarnsArgs : SetMaxWarns(c, TRUE, args)
    \/ \E c \in SpecChats, args \in FilterArgs : AddFilter(c, TRUE, args)
    \/ \E c \in SpecChats, args \in RmFilterArgs : RmFilter(c, TRUE, args)

Spec == Init /\ [][Next]_vars

(* SpecFlood: the flood scenarios.  One chat, messages of one sender as    *)
(* time passes, the anti-spam switch, and restarts.                        *)

FloodTexts == {T_hi, T_link}

NextFlood ==
    \/ Main
    \/ Restart
    \/ Tick
    \/ \E c \in SpecChats, u \in Senders, text \in FloodTexts : MessageTimed(c, u, text)
    \/ \E c \in SpecChats, args \in AntispamArgs : Antispam(c, TRUE, args)

SpecFlood == Init /\ [][NextFlood]_vars

(* SpecWindow: the flood detector over time, one sender's link-free        *)
(* messages in a chat with antispam on and no filter.                      *)

NextWindow ==
    \/ Main
    \/ Tick
    \/ \E c \in SpecChats, u \in Senders : MessageLogged(c, u, T_hi)

SpecWindow == Init /\ [][NextWindow]_vars

(* SpecPath: the paths of the message handler.  One chat, messages of one  *)
(* sender with and without a filtered word and a link as time passes, one  *)
(* filter added with and without warn, and the anti-spam switch.           *)

PathTexts == {T_hi, T_link, T_spammy, T_spamlink}
PathFilterArgs == { <<W_spam>>, <<W_spam, W_warn>> }
PathAntispamArgs == { <<<<"O","N">>>>, <<<<"o","f","f">>>> }

NextPath ==
    \/ Main
    \/ Tick
    \/ \E c \in SpecChats, u \in Senders, text \in PathTexts : Message(c, u, text)
    \/ \E c \in SpecChats, args \in PathFilterArgs : AddFilter(c, TRUE, args)
    \/ \E c \in SpecChats, args \in PathAntispamArgs : Antispam(c, TRUE, args)

SpecPath == Init /\ [][NextPath]_vars

---------------------------------------------------------------------------
(* SpecAdmin: the admin commands with every kind of caller and argument.   *)

\* what get_chat_member answers for the caller; "error": the lookup raises
MemberStatuses == {"creator", "administrator", "member", "error"}

\* lines 157-165
is_admin(status) == status \in {"creator", "administrator"}

Callers == {is_admin(st) : st \in MemberStatuses}

Targets == {1, NoUser}

AdminMaxWarnsArgs == { <<>>, <<<<"0">>>>, <<<<"2">>>>, <<<<"x">>>> }
SlowmodeArgs == { <<>>, <<<<"O","f","f">>>>, <<<<"5">>>>, <<<<"-","5">>>>, <<<<"a","b","c">>>> }
AdminAntispamArgs == AntispamArgs \cup { <<>> }
DurationArgs == { <<>>, <<<<"1","M">>>>, <<<<"1","0","x">>>>, <<<<"a","b","c">>>> }
AdminFilterArgs == { <<>>, <<W_spam, W_warn>> }

NextAdmin ==
    \/ Main
    \/ \E c \in SpecChats, a \in Callers, args \in AdminMaxWarnsArgs : SetMaxWarns(c, a, args)
    \/ \E c \in SpecChats, a \in Callers, args \in SlowmodeArgs : Slowmode(c, a, args)
    \/ \E c \in SpecChats, a \in Callers, args \in AdminAntispamArgs : Antispam(c, a, args)
    \/ \E c \in SpecChats, a \in Callers, t \in Targets, args \in DurationArgs : Mute(c, a, t, args)
    \/ \E c \in SpecChats, a \in Callers, t \in Targets, args \in DurationArgs : Ban(c, a, t, args)
    \/ \E c \in SpecChats, a \in Callers, t \in Targets : Warn(c, a, t)
    \/ \E c \in SpecChats, a \in Callers, t \in Targets : ResetWarns(c, a, t)
    \/ \E c \in SpecChats, a \in Callers, args \in AdminFilterArgs : AddFilter(c, a, args)
    \/ \E c \in SpecChats, a \in Callers, args \in AdminFilterArgs : RmFilter(c, a, args)

SpecAdmin == Init /\ [][NextAdmin]_vars

---------------------------------------------------------------------------
(* SpecFull: telegram_admin_bot_full.py, its message handler with senders  *)
(* of every kind and the commands that set the filters and the threshold.  *)

FullFilterArgs == { <<W_spam>>, <<W_am, W_warn>> }

NextFull ==
    \/ Main
    \/ \E c \in SpecChats, args \in FullFilterArgs : AddFilter(c, TRUE, args)
    \/ \E c \in SpecChats, args \in MaxWarnsArgs : SetMaxWarns(c, TRUE, args)
    \/ \E c \in SpecChats, u \in Users, a \in Callers, t \in Users \cup {NoUser},
          text \in Texts : Enforce(c, u, a, t, text)

SpecFull == Init /\ [][NextFull]_vars

---------------------------------------------------------------------------
(* The handlers as coroutines: several updates in flight, interleaved at   *)
(* their awaits.                                                           *)

\* `conf` bound before an await and read after it, where the dict has been
\* copied at the binding
Deref_copy(d, chat_id, held) == held

\* line 631: conf is the dict stored in data["chats"], not a copy; read
\* after an await it shows what the other handlers have stored meanwhile
Deref(d, chat_id, held) == d.chats[ChatKey(chat_id)]

\* the calls of a suspended task are awaited one at a time
Suspend(t, calls) ==
    [t EXCEPT !.pc = IF calls = <<>> THEN "done" ELSE "calls", !.todo = calls]

\* /warn up to `await is_admin(...)` (lines 371, 288, 162)
WarnStart(h, c, admin, target) ==
    /\ running
    /\ tasks[h].pc = "idle"
    /\ tasks' = [tasks EXCEPT ![h] =
                    [NoTask EXCEPT !.pc = "get_chat_member", !.op = "warn",
                                   !.chat = c, !.admin = admin, !.target = target]]
    /\ UNCHANGED <<data, file, running, clock, ev, out, burst, run, older, issued, recent, bans, LAST_REQUEST_TIME, presses>>

\* what DATA_FILE holds once save_data() has returned (lines 122-127):
\* the dump; the old content when open() raised; a part of the dump when
\* the write raised.  The exception is logged and the caller goes on.
IOs == {"ok", "open_raises", "write_raises"}

Stored(old, new, io) ==
    CASE io = "ok"           -> new
      [] io = "open_raises"  -> old
      [] io = "write_raises" -> FileGarbage

\* WarnCheckedIO with a save_data() that lets its exception through: the
\* handler ends at line 383 and the dispatcher gets the exception
WarnCheckedIO_raises(h, io) ==
    LET t == tasks[h]
        r == warn(data, file, t.chat, t.admin, t.target)
        escalated == t.admin /\ t.target # NoUser
    IN  /\ t.pc = "get_chat_member"
        /\ io = "ok" \/ escalated
        /\ WithinBounds(r.data)
        /\ data' = r.data
        /\ file' = Stored(file, r.file, io)
        /\ tasks' = [tasks EXCEPT ![h] =
                        [Suspend(t, IF io = "ok" THEN r.out ELSE <<Raised("save_data")>>)
                         EXCEPT
                            !.cur = IF escalated
                                    THEN WarnOfConf(r.data, t.chat, t.target) ELSE 0,
                            !.overlap = escalated /\ InFlight(tasks) # {h}]]
        /\ UNCHANGED <<running, clock, ev, out, burst, run, older, issued, recent, bans, LAST_REQUEST_TIME, presses>>

\* get_chat_member answers: lines 372-384 run up to the next await
WarnCheckedIO(h, io) ==
    LET t == tasks[h]
        r == warn(data, file, t.chat, t.admin, t.target)
        escalated == t.admin /\ t.target # NoUser
    IN  /\ t.pc = "get_chat_member"
        /\ io = "ok" \/ escalated
        /\ WithinBounds(r.data)
        /\ data' = r.data
        /\ file' = Stored(file, r.file, io)
        /\ tasks' = [tasks EXCEPT ![h] =
                        [Suspend(t, r.out) EXCEPT
                            !.cur = IF escalated
                                    THEN WarnOfConf(r.data, t.chat, t.target) ELSE 0,
                            !.overlap = escalated /\ InFlight(tasks) # {h}]]
        /\ UNCHANGED <<running, clock, ev, out, burst, run, older, issued, recent, bans, LAST_REQUEST_TIME, presses>>

WarnChecked(h) == WarnCheckedIO(h, "ok")

\* the group message handler up to `await message.delete()` (lines 626-638);
\* the messages taken are those that match a filter
MessageStart(h, c, u, text) ==
    LET d1   == touch_user_and_chat_for_stats(data, u, c)
        d2   == ensure_chat(d1, c)
        conf == d2.chats[ChatKey(c)]
        lt   == Lower(text)
    IN  /\ running
        /\ tasks[h].pc = "idle"
        /\ Matches(conf.filters, lt) # {}
        /\ data' = d2
        /\ file' = save_data(d1)
        /\ tasks' = [tasks EXCEPT ![h] =
                        [NoTask EXCEPT !.pc = "delete", !.op = "message",
                                       !.chat = c, !.user = u, !.conf = conf,
                                       !.cfg = conf.filters[FirstMatch(conf.filters, lt)].warn]]
        /\ UNCHANGED <<running, clock, ev, out, burst, run, older, issued, recent, bans, LAST_REQUEST_TIME, presses>>

\* message.delete() returns or raises: lines 641-661 run up to the next await
MessageDeletedIO(h, io) ==
    LET t    == tasks[h]
        conf == Deref(data, t.chat, t.conf)
        e    == FilterEscalate(conf, Str(t.user))
        d3   == SetConf(data, t.chat, e.conf)
    IN  /\ t.pc = "delete"
        /\ io = "ok" \/ t.cfg
        /\ IF t.cfg
           THEN /\ WithinBounds(d3)
                /\ data' = d3
                /\ file' = Stored(file, save_data(d3), io)
                /\ tasks' = [tasks EXCEPT ![h] =
                                [Suspend(t, IF e.banned
                                            THEN <<BanChatMember(t.user),
                                                   LogAction("auto_ban", t.user)>>
                                            ELSE <<SendWarned(t.user, e.cur, conf.max_warns)>>)
                                 EXCEPT !.made = <<DeleteMessage>>,
                                        !.cur = e.cur,
                                        !.overlap = InFlight(tasks) # {h}]]
           ELSE /\ tasks' = [tasks EXCEPT ![h] =
                                [Suspend(t, <<>>) EXCEPT !.made = <<DeleteMessage>>]]
                /\ UNCHANGED <<data, file>>
        /\ UNCHANGED <<running, clock, ev, out, burst, run, older, issued, recent, bans, LAST_REQUEST_TIME, presses>>

MessageDeleted(h) == MessageDeletedIO(h, "ok")

\* the ban, or the notice of the warning, that an escalation ends with
Verdict(x) == x.call = "ban_chat_member" \/ x.what = "warned"

\* the platform call a task awaits is made and returns
TaskCall(h) ==
    LET t == tasks[h]
    IN  /\ t.pc = "calls"
        /\ tasks' = [tasks EXCEPT ![h] =
                        [Suspend(t, Tail(t.todo)) EXCEPT !.made = Append(@, Head(t.todo))]]
        /\ issued' = IF Verdict(Head(t.todo))
                      THEN issued \cup {<<t.chat, Head(t.todo).user, t.cur>>}
                      ELSE issued
        /\ UNCHANGED <<data, file, running, clock, ev, out, burst, run, older, recent, bans, LAST_REQUEST_TIME, presses>>

\* the chat is configured before the first of the concurrent updates arrives
Configuring == \A h \in TaskIds : tasks[h].pc = "idle"

\* tasks are numbered in the order their updates arrive
NextIdle(h) == \A g \in TaskIds : tasks[g].pc = "idle" <=> g >= h

ConcUser == 1
ConcFilterArgs == { <<W_spam, W_warn>> }
ConcTexts == {T_spammy}

NextConc ==
    \/ Main
    \/ \E c \in SpecChats, args \in ConcFilterArgs : Configuring /\ AddFilter(c, TRUE, args)
    \/ \E c \in SpecChats, args \in MaxWarnsArgs : Configuring /\ SetMaxWarns(c, TRUE, args)
    \/ \E h \in TaskIds, c \in SpecChats : NextIdle(h) /\ WarnStart(h, c, TRUE, ConcUser)
    \/ \E h \in TaskIds : WarnChecked(h)
    \/ \E h \in TaskIds, c \in SpecChats, text \in ConcTexts :
            NextIdle(h) /\ MessageStart(h, c, ConcUser, text)
    \/ \E h \in TaskIds : MessageDeleted(h)
    \/ \E h \in TaskIds : TaskCall(h)

SpecConc == Init /\ [][NextConc]_vars

---------------------------------------------------------------------------
(* SpecSender: the message handler given updates whose sender is the       *)
(* creator, an administrator or a member of the chat, or one whose status  *)
(* cannot be looked up.                                                    *)

\* the handler that lets the messages of admins through untouched
handle_message_exempt(d, f, chat_id, sender, status, text, now) ==
    IF is_admin(status)
    THEN Result(d, f, <<>>)
    ELSE apply_filters_and_antispam(d, f, chat_id, sender, text, now)

\* lines 624-694 on an update of a sender with this member status: the
\* handler makes no get_chat_member call and has no is_admin test
handle_message(d, f, chat_id, sender, status, text, now) ==
    apply_filters_and_antispam(d, f, chat_id, sender, text, now)

MessageFrom(c, u, status, text) ==
    /\ running
    /\ Apply(handle_message(data, file, c, u, status, text, clock))
    /\ ev' = Event("message", c, u, is_admin(status), NoUser, <<>>, text, clock)
    /\ UNCHANGED <<running, clock, burst, run, older, tasks, issued, recent,
                   bans, LAST_REQUEST_TIME, presses>>

SenderTexts == {T_hi, T_spammy, T_link}

NextSender ==
    \/ Main
    \/ \E c \in SpecChats, args \in PathFilterArgs : AddFilter(c, TRUE, args)
    \/ \E c \in SpecChats, u \in Senders, st \in MemberStatuses, text \in SenderTexts :
            MessageFrom(c, u, st, text)

SpecSender == Init /\ [][NextSender]_vars

---------------------------------------------------------------------------
(* SpecLoad: the process started on a data file that holds well-formed     *)
(* JSON of any shape at the top level and under the three keys.            *)

WellFormed(d) == IsMapping(d.chats) /\ IsMapping(d.users) /\ IsMapping(d.groups)

\* json.dump of a store whose users and groups are dicts and whose chats is not
SaveLoaded(d) ==
    FileObject(JsonField(TypeOf(d.chats), <<>>),
               JsonField("object", DumpMap(d.users)),
               JsonField("object", DumpMap(d.groups)))

\* lines 629-631 on a store one of whose keys holds no dict: the subscript
\* assignment of line 151 or 153 raises, or save_data() runs and the
\* membership test or assignment in ensure_chat (133, 134) raises
TouchAndEnsureLoaded(d, f, chat_id, sender) ==
    IF ~IsMapping(d.users) THEN Result(d, f, <<Raised("TypeError")>>)
    ELSE LET d1 == [d EXCEPT !.users = Put(@, Str(sender), TRUE)]
         IN  IF ~IsMapping(d.groups) THEN Result(d1, f, <<Raised("TypeError")>>)
             ELSE LET d2 == [d1 EXCEPT !.groups = Put(@, Str(chat_id), TRUE)]
                  IN  Result(d2, SaveLoaded(d2), <<Raised("TypeError")>>)

MessageLoaded(c, u, text) ==
    /\ running
    /\ ~WellFormed(data)
    /\ LET r == TouchAndEnsureLoaded(data, file, c, u)
       IN  data' = r.data /\ file' = r.file /\ out' = r.out
    /\ ev' = Event("message", c, u, FALSE, NoUser, <<>>, text, clock)
    /\ UNCHANGED <<running, clock, burst, run, older, tasks, issued, recent,
                   bans, LAST_REQUEST_TIME, presses>>

\* /addfilter <word> by an admin: ensure_chat(chat.id) at line 461 raises
AddFilterLoaded(c, args) ==
    /\ running
    /\ ~IsMapping(data.chats)
    /\ out' = <<Raised("TypeError")>>
    /\ ev' = Command("addfilter", c, TRUE, NoUser, args)
    /\ UNCHANGED <<data, file, running, clock, burst, run, older, tasks, issued,
                   recent, bans, LAST_REQUEST_TIME, presses>>

LoadTypes == {"null", "array", "string"}

LoadFields(members) ==
    {JsonField("absent", <<>>), JsonField("object", <<>>), JsonField("object", members)}
        \cup {JsonField(t, <<>>) : t \in LoadTypes}

LoadFiles ==
    {FileMissing, FileGarbage}
        \cup {FileValue(t) : t \in LoadTypes}
        \cup {FileObject(cf, uf, gf) :
                cf \in LoadFields(<<[key |-> Str(100), val |-> DumpChat(DefaultChat)]>>),
                uf \in LoadFields(<<[key |-> Str(1), val |-> TRUE]>>),
                gf \in LoadFields(<<[key |-> Str(100), val |-> TRUE]>>)}

InitLoad ==
    /\ data = EmptyStore
    /\ file \in LoadFiles
    /\ running = FALSE
    /\ clock = 0
    /\ ev = ProcessEvent("import")
    /\ out = <<>>
    /\ burst = [p \in Pairs |-> NoBurst]
    /\ run = [p \in Pairs |-> NoRun]
    /\ older = [c \in GroupChats |-> {}]
    /\ tasks = [h \in TaskIds |-> NoTask]
    /\ issued = {}
    /\ recent = [p \in Pairs |-> <<>>]
    /\ bans = {}
    /\ LAST_REQUEST_TIME = 0
    /\ presses = [h \in TaskIds |-> NoPress]

LoadFilterArgs == { <<W_spam>> }

NextLoad ==
    \/ Main
    \/ \E c \in SpecChats, args \in LoadFilterArgs :
            WellFormed(data) /\ AddFilter(c, TRUE, args)
    \/ \E c \in SpecChats, u \in Senders :
            WellFormed(data) /\ Message(c, u, T_hi)
    \/ \E c \in SpecChats, args \in LoadFilterArgs : AddFilterLoaded(c, args)
    \/ \E c \in SpecChats, u \in Senders : MessageLoaded(c, u, T_hi)

SpecLoad == InitLoad /\ [][NextLoad]_vars

---------------------------------------------------------------------------
(* SpecPress: boot.py. Each press of an inline button starts one run of    *)
(* handle_button_press; a run gives way at `await query.answer()`, so runs *)
(* started before it finishes are resumed in any order. The presses are    *)
(* numbered in the order their handlers start.                             *)

COOLDOWN_TIME == 3

\* time.time() when the clock of the model is 0: seconds since 1970, not
\* less than COOLDOWN_TIME
Epoch == COOLDOWN_TIME

\* the test of line 27 that never rejects
TooSoon_never(current_time, last) == FALSE

\* current_time - LAST_REQUEST_TIME < COOLDOWN_TIME
TooSoon(current_time, last) == current_time - last < COOLDOWN_TIME

EditMessageText(what) == Call("edit_message_text", what, NoUser, 0, 0)
SendDocument == Call("send_document", "gif", NoUser, 0, 0)

\* query.data of the buttons '1' and '4'
Buttons == {"1", "4"}

\* lines 33-48 for an accepted press
ButtonCalls(button) ==
    IF button = "4" THEN <<SendDocument>> ELSE <<EditMessageText(button)>>

\* lines 22-25: the time is read, then the handler awaits query.answer()
PressStart(h) ==
    /\ presses[h].pc = "idle"
    /\ \A k \in TaskIds : k < h => presses[k].pc # "idle"
    /\ presses' = [presses EXCEPT ![h] = [pc |-> "answer", current_time |-> Epoch + clock]]
    /\ UNCHANGED <<data, file, running, clock, ev, out, burst, run, older, tasks,
                   issued, recent, bans, LAST_REQUEST_TIME>>

\* lines 27-48, resumed after query.answer(): no await lies between the test
\* of line 27 and the assignment of line 31
PressAnswered(h, button) ==
    /\ presses[h].pc = "answer"
    /\ IF TooSoon(presses[h].current_time, LAST_REQUEST_TIME)
       THEN /\ out' = <<EditMessageText("Too many requests. Please wait 3 seconds!")>>
            /\ presses' = [presses EXCEPT ![h].pc = "rejected"]
            /\ UNCHANGED LAST_REQUEST_TIME
       ELSE /\ LAST_REQUEST_TIME' = presses[h].current_time
            /\ out' = ButtonCalls(button)
            /\ presses' = [presses EXCEPT ![h].pc = "accepted"]
    /\ UNCHANGED <<data, file, running, clock, ev, burst, run, older, tasks,
                   issued, recent, bans>>

NextPress ==
    \/ Tick
    \/ \E h \in TaskIds : PressStart(h)
    \/ \E h \in TaskIds, button \in Buttons : PressAnswered(h, button)

SpecPress == Init /\ [][NextPress]_vars

---------------------------------------------------------------------------
(* SpecFilters: the filter commands of an admin in one chat, words given   *)
(* in either case, with and without the warn flag, and filtered messages.  *)

NextFilters ==
    \/ Main
    \/ \E c \in SpecChats, args \in FilterArgs : AddFilter(c, TRUE, args)
    \/ \E c \in SpecChats, args \in RmFilterArgs : RmFilter(c, TRUE, args)
    \/ \E c \in SpecChats, u \in Senders, text \in ConcTexts : Message(c, u, text)

SpecFilters == Init /\ [][NextFilters]_vars

---------------------------------------------------------------------------
(* SpecBan: the escalations, /resetwarns and /setmaxwarns handled in turn, *)
(* with the history of the ban calls kept.                                 *)

\* the bans on record after a handler with calls o about user u
BansAfter(c, u, o) ==
    IF \E i \in DOMAIN o : o[i] = BanChatMember(u) THEN bans \cup {<<c, u>>} ELSE bans

WarnKept(c, target) ==
    LET r == warn(data, file, c, TRUE, target)
    IN  /\ running
        /\ Apply(r)
        /\ ev' = Command("warn", c, TRUE, target, <<>>)
        /\ bans' = BansAfter(c, target, r.out)
        /\ UNCHANGED <<running, clock, burst, run, older, tasks, issued, recent,
                       LAST_REQUEST_TIME, presses>>

MessageKept(c, u, text) ==
    LET r == apply_filters_and_antispam(data, file, c, u, text, clock)
    IN  /\ running
        /\ Apply(r)
        /\ ev' = Event("message", c, u, FALSE, NoUser, <<>>, text, clock)
        /\ bans' = BansAfter(c, u, r.out)
        /\ UNCHANGED <<running, clock, burst, run, older, tasks, issued, recent,
                       LAST_REQUEST_TIME, presses>>

ResetWarnsKept(c, target) ==
    /\ running
    /\ Apply(resetwarns(data, file, c, TRUE, target))
    /\ ev' = Command("resetwarns", c, TRUE, target, <<>>)
    /\ bans' = bans \ {<<c, target>>}
    /\ UNCHANGED <<running, clock, burst, run, older, tasks, issued, recent,
                   LAST_REQUEST_TIME, presses>>

NextBan ==
    \/ Main
    \/ \E c \in SpecChats, args \in ConcFilterArgs : AddFilter(c, TRUE, args)
    \/ \E c \in SpecChats, args \in MaxWarnsArgs : SetMaxWarns(c, TRUE, args)
    \/ \E c \in SpecChats, u \in Users : WarnKept(c, u)
    \/ \E c \in SpecChats, u \in Users, text \in ConcTexts : MessageKept(c, u, text)
    \/ \E c \in SpecChats, u \in Users : ResetWarnsKept(c, u)

SpecBan == Init /\ [][NextBan]_vars

---------------------------------------------------------------------------
(* SpecFrame: two chats and two users.  Messages and commands handled in   *)
(* turn while the chats are set up, then a filtered message of user 1 in   *)
(* chat 100 and one of user 2 in chat 200 in flight together.              *)

FrameTasks == { <<1, 100, 1>>, <<2, 200, 2>> }

NextFrame ==
    \/ Main
    \/ \E c \in GroupChats, args \in ConcFilterArgs : Configuring /\ AddFilter(c, TRUE, args)
    \/ \E c \in GroupChats, u \in Users \ {ConcUser} : Configuring /\ Warn(c, TRUE, u)
    \/ \E c \in SpecChats, u \in Users : Configuring /\ Message(c, u, T_hi)
    \/ \E p \in FrameTasks, text \in ConcTexts : MessageStart(p[1], p[2], p[3], text)
    \/ \E p \in FrameTasks : MessageDeleted(p[1])
    \/ \E p \in FrameTasks : TaskCall(p[1])

SpecFrame == Init /\ [][NextFrame]_vars

---------------------------------------------------------------------------
(* SpecBurst: the flood detector with several messages of one user in      *)
(* flight.  The only awaits of the flood path are the three calls of a     *)
(* flagged message (lines 683-689); a message below the limit runs from    *)
(* line 626 to its return without one.  The handlers overlap within one    *)
(* reading of the clock.                                                   *)

\* the flagged task is suspended in its calls: the reset has not run yet
Flagging(ts) ==
    {g \in TaskIds : ts[g].op = "flood" /\ ts[g].pc = "calls"}

\* lines 626-680 for a message that matches no filter and has no link:
\* the message is counted; cur holds u["count"] as the handler compares it
FloodStart(h, c, u, text) ==
    LET d1   == touch_user_and_chat_for_stats(data, u, c)
        d2   == ensure_chat(d1, c)
        conf == d2.chats[ChatKey(c)]
        w    == FloodCount(conf.flood, Str(u), clock)
    IN  /\ running
        /\ tasks[h].pc = "idle"
        /\ Qualifies(conf, text)
        /\ data' = SetConf(d2, c, [conf EXCEPT !.flood = Put(@, Str(u), w)])
        /\ file' = save_data(d1)
        /\ tasks' = [tasks EXCEPT ![h] =
                        [Suspend([NoTask EXCEPT !.op = "flood", !.chat = c, !.user = u],
                                 IF FloodFlagged(w)
                                 THEN <<RestrictMute(u, MuteUntil(clock)),
                                        SendFloodMute(u), LogAction("flood", u)>>
                                 ELSE <<>>)
                         EXCEPT !.cur = w.count,
                                !.overlap = Flagging(tasks) # {}]]
        /\ UNCHANGED <<running, clock, ev, out, burst, run, older, issued, recent, bans, LAST_REQUEST_TIME, presses>>

\* lines 691-693, run when the try block is left: u is the dict in data
FloodReset(d, c, u, now) ==
    SetConf(d, c, [d.chats[ChatKey(c)] EXCEPT
                      !.flood = Put(@, Str(u), [count |-> 0, ts |-> now])])

\* the call a flagged task awaits returns, or raises into `except: pass`;
\* after the last one, or the one that raised, the window is reset and saved
FloodCall(h, ok) ==
    LET t    == tasks[h]
        rest == IF ok THEN Tail(t.todo) ELSE <<>>
        d1   == FloodReset(data, t.chat, t.user, clock)
    IN  /\ t.op = "flood" /\ t.pc = "calls"
        /\ tasks' = [tasks EXCEPT ![h] =
                        [Suspend(t, rest) EXCEPT
                            !.made = IF ok THEN Append(@, Head(t.todo)) ELSE @]]
        /\ IF rest = <<>>
           THEN data' = d1 /\ file' = save_data(d1)
           ELSE UNCHANGED <<data, file>>
        /\ UNCHANGED <<running, clock, ev, out, burst, run, older, issued, recent, bans, LAST_REQUEST_TIME, presses>>

NextBurstConc ==
    \/ Main
    \/ \E c \in SpecChats : Configuring /\ Message(c, ConcUser, T_hi)
    \/ \E h \in TaskIds, c \in SpecChats : NextIdle(h) /\ FloodStart(h, c, ConcUser, T_hi)
    \/ \E h \in TaskIds, ok \in BOOLEAN : FloodCall(h, ok)

SpecBurst == Init /\ [][NextBurstConc]_vars

---------------------------------------------------------------------------
(* SpecCrash: one escalation at a time, with the process dying between two *)
(* steps of a handler or while save_data() is writing, write errors that   *)
(* save_data() swallows, and the restart that follows a death.             *)

\* the handler has returned
Finish(h) ==
    /\ tasks[h].pc = "done"
    /\ tasks' = [tasks EXCEPT ![h] = NoTask]
    /\ UNCHANGED <<data, file, running, clock, ev, out, burst, run, older, issued, recent, bans, LAST_REQUEST_TIME, presses>>

\* the process dies; what the next one starts from is line 103 and the file
Dies ==
    /\ running' = FALSE
    /\ data' = EmptyStore
    /\ tasks' = [h \in TaskIds |-> NoTask]
    /\ ev' = ProcessEvent("crash")
    /\ UNCHANGED <<clock, out, burst, run, older, issued, recent, bans, LAST_REQUEST_TIME, presses>>

\* between two steps of the handlers
Crash ==
    /\ running
    /\ Dies
    /\ UNCHANGED file

\* inside save_data(), after open(DATA_FILE, "w") has emptied the file and
\* before json.dump has written all of it (lines 124-125)
Saving(t) ==
    \/ t.pc = "get_chat_member" /\ t.admin /\ t.target # NoUser
    \/ t.pc = "delete" /\ t.cfg

CrashInSave(h) ==
    /\ running
    /\ Saving(tasks[h])
    /\ Dies
    /\ file' = FileGarbage

NextCrash ==
    \/ Main
    \/ \E c \in SpecChats, args \in ConcFilterArgs : Configuring /\ AddFilter(c, TRUE, args)
    \/ \E c \in SpecChats : Configuring /\ WarnStart(1, c, TRUE, ConcUser)
    \/ \E io \in IOs : WarnCheckedIO(1, io)
    \/ \E c \in SpecChats, text \in ConcTexts : Configuring /\ MessageStart(1, c, ConcUser, text)
    \/ \E io \in IOs : MessageDeletedIO(1, io)
    \/ TaskCall(1)
    \/ Finish(1)
    \/ Crash
    \/ CrashInSave(1)

SpecCrash == Init /\ [][NextCrash]_vars

---------------------------------------------------------------------------
(* What the claims read off a state *)

Calls(o) == {o[i] : i \in DOMAIN o}

Banned(o, u) == BanChatMember(u) \in Calls(o)
WarnedWith(o, u, cur, max) ==
    SendWarned(u, cur, max) \in Calls(o) \/ ReplyWarned(u, cur, max) \in Calls(o)
WarnNotices(o) == {x \in Calls(o) : x.what = "warned"}
Bans(o) == {x \in Calls(o) : x.call = "ban_chat_member"}
Deleted(o) == DeleteMessage \in Calls(o)

\* the warn count of user u in chat c as the handlers read it
WarnOf(d, c, u) ==
    IF ChatKey(c) \in DOMAIN d.chats
    THEN Get(d.chats[ChatKey(c)].warns, Str(u), 0)
    ELSE 0

MaxWarnsOf(d, c) == ConfOf(d, c).max_warns

\* the stored items of chat c whose word occurs in the lower-cased text
MatchingItems(d, c, text) ==
    LET fs == ConfOf(d, c).filters
    IN  {fs[i] : i \in {j \in DOMAIN fs : Contains(fs[j].word, Lower(text))}}

\* the item of chat c that comes first in the dict among those matching
FirstItem(d, c, text) ==
    LET fs == ConfOf(d, c).filters
        ms == {j \in DOMAIN fs : Contains(fs[j].word, Lower(text))}
    IN  fs[CHOOSE i \in ms : \A j \in ms : i <= j]

\* the step handles an escalation of user u in chat c
EscalationStep(c, u) ==
    \/ ev'.op = "warn" /\ ev'.chat = c /\ ev'.admin /\ ev'.target = u
    \/ /\ ev'.op = "message" /\ ev'.chat = c /\ ev'.user = u
       /\ MatchingItems(data, c, ev'.text) # {}
       /\ FirstItem(data, c, ev'.text).warn

---------------------------------------------------------------------------
(* C1: every escalation (a /warn of bot.py, or a message whose matched     *)
(* filter has warn=true) raises the warn count of its user by exactly 1;   *)
(* it issues a ban if and only if the new count is >= max_warns, and       *)
(* otherwise a warning notice carrying the new count and max_warns.        *)

C1_StepOk(c, u) ==
    LET cur == WarnOf(data, c, u) + 1
        max == MaxWarnsOf(data, c)
    IN  /\ WarnOf(data', c, u) = cur
        /\ Banned(out', u) <=> cur >= max
        /\ cur < max => WarnedWith(out', u, cur, max)
        /\ cur >= max => WarnNotices(out') = {}
        /\ Bans(out') \subseteq {BanChatMember(u)}

C1_EscalationVerdict ==
    [][\A c \in GroupChats, u \in Users : EscalationStep(c, u) => C1_StepOk(c, u)]_vars

\* a /warn brought its target to exactly max_warns and the ban was issued
C1_Witness ==
    /\ ev.op = "warn" /\ ev.target # NoUser
    /\ WarnOf(data, ev.chat, ev.target) = MaxWarnsOf(data, ev.chat)
    /\ out[1] = BanChatMember(ev.target)

---------------------------------------------------------------------------
(* C2, as stated: in apply_filters_and_antispam a sender whose warn count  *)
(* is max_warns-1 and whose message matches a filter with warn=true is     *)
(* deleted and banned; a match on a filter with warn=false gives the       *)
(* deletion only and changes no warn count.                                *)

WarnsOfChat(d, c) == ConfOf(d, c).warns

C2_AnyMatchingFilter ==
    [][\A c \in GroupChats, u \in Users :
         (ev'.op = "message" /\ ev'.chat = c /\ ev'.user = u) =>
            /\ ( /\ \E x \in MatchingItems(data, c, ev'.text) : x.warn
                 /\ WarnOf(data, c, u) = MaxWarnsOf(data, c) - 1 )
               => (Deleted(out') /\ Banned(out', u))
            /\ (\E x \in MatchingItems(data, c, ev'.text) : ~x.warn)
               => (out' = <<DeleteMessage>> /\ WarnsOfChat(data', c) = WarnsOfChat(data, c))
      ]_vars

(* C2, amended: the filter that decides is the first matching one in the   *)
(* dict's order.  If it has warn=true and the sender stands at             *)
(* max_warns-1, the message is deleted and the sender banned; if it has    *)
(* warn=false, the message is deleted, nothing else is issued and no warn  *)
(* count changes.                                                          *)

C2_FirstMatchingFilter ==
    [][\A c \in GroupChats, u \in Users :
         ( /\ ev'.op = "message" /\ ev'.chat = c /\ ev'.user = u
           /\ MatchingItems(data, c, ev'.text) # {} ) =>
            /\ ( /\ FirstItem(data, c, ev'.text).warn
                 /\ WarnOf(data, c, u) = MaxWarnsOf(data, c) - 1 )
               => (Deleted(out') /\ Banned(out', u))
            /\ ~FirstItem(data, c, ev'.text).warn
               => (out' = <<DeleteMessage>> /\ WarnsOfChat(data', c) = WarnsOfChat(data, c))
      ]_vars

\* max_warns = 3, the sender had 2 warns, the message matched a warn filter
C2_Witness ==
    /\ ev.op = "message"
    /\ MaxWarnsOf(data, ev.chat) = 3
    /\ WarnOf(data, ev.chat, ev.user) = 3
    /\ out = <<DeleteMessage, BanChatMember(ev.user), LogAction("auto_ban", ev.user)>>

---------------------------------------------------------------------------
(* C6: every stored warn count is >= 0, and no step other than a           *)
(* /resetwarns naming user u lowers the warn count of u (a restart         *)
(* included: the count read back from the file is not lower).              *)

C6_NonNegative ==
    \A k \in DOMAIN data.chats : \A u \in DOMAIN data.chats[k].warns :
        data.chats[k].warns[u] >= 0

C6_NoDecrease ==
    \A c \in GroupChats, u \in Users :
        ~(ev'.op = "resetwarns" /\ ev'.chat = c /\ ev'.target = u)
            => WarnOf(data', c, u) >= WarnOf(data, c, u)

C6_WarnsMonotone == [](C6_NonNegative) /\ [][C6_NoDecrease]_vars

\* a restart that found a count of 2 or more in the file
C6_Witness ==
    /\ ev.op = "restart"
    /\ \E c \in GroupChats, u \in Users : WarnOf(data, c, u) >= 2

---------------------------------------------------------------------------
(* C7: save_data followed by load_data gives back the store that was       *)
(* saved: all chats with all their fields (filters with flags and order,   *)
(* warns, flood, settings), empty maps included, and users and groups.     *)

C7_RoundTripOfStore ==
    load_data(save_data(data)) = [data |-> data, raised |-> FALSE]

C7_RestartRestores ==
    (ev'.op = "restart" /\ file = save_data(data)) => data' = data

C7_SaveLoadRoundTrip == [](C7_RoundTripOfStore) /\ [][C7_RestartRestores]_vars

\* a restart read back a chat with two filters, a warn count and a flood window
C7_Witness ==
    /\ ev.op = "restart"
    /\ file = save_data(data)
    /\ \E k \in DOMAIN data.chats :
          /\ Len(data.chats[k].filters) = 2
          /\ DOMAIN data.chats[k].warns # {}
          /\ DOMAIN data.chats[k].flood # {}

---------------------------------------------------------------------------
(* C8: load_data lets no exception out, and with the file missing or       *)
(* unparseable the store it leaves is the empty store.                     *)

C8_LoadNeverRaises ==
    ev.op \in {"main", "restart"} =>
        /\ \A x \in Calls(out) : x.call # "raise"
        /\ running
        /\ file.kind \in {"missing", "garbage"} => data = EmptyStore

\* a process started on an unparseable file and serves with the empty store
C8_Witness ==
    /\ ev.op = "main"
    /\ file.kind = "garbage"
    /\ running
    /\ data = EmptyStore

---------------------------------------------------------------------------
(* C9: a filter is stored under the lower-cased word of the command, and a *)
(* message is taken by the filters exactly when a stored word occurs as a  *)
(* substring of the lower-cased text, whatever the letter case and the     *)
(* word boundaries.                                                        *)

StoredWords(d, c) == FilterWords(ConfOf(d, c).filters)

C9_CaseInsensitiveSubstring ==
    /\ \A c \in GroupChats : \A w \in StoredWords(data, c) : Lower(w) = w
    /\ (ev.op = "addfilter" /\ ev.admin /\ ev.args # <<>>)
          => Lower(ev.args[1]) \in StoredWords(data, ev.chat)
    /\ (ev.op = "message" /\ ~HasLink(ev.text))
          => ( Deleted(out) <=>
                 \E w \in StoredWords(data, ev.chat) : Contains(w, Lower(ev.text)) )

\* the only filter is "spam" and the message "this is SPAMMY" was deleted
C9_Witness ==
    /\ ev.op = "message" /\ ev.text = T_spammy
    /\ StoredWords(data, ev.chat) = {W_spam}
    /\ Deleted(out)

---------------------------------------------------------------------------
(* C10: when several stored filters match a message, the one that was      *)
(* inserted earliest decides: a warning is escalated exactly when that     *)
(* filter has warn=true.  The insertion order is the history `older`,      *)
(* kept apart from the dict; restarts are among the steps.                 *)

Escalated(o) == Bans(o) # {} \/ WarnNotices(o) # {}

FlagOf(d, c, w) == (CHOOSE x \in Calls(ConfOf(d, c).filters) : x.word = w).warn

C10_EarliestAddedDecides ==
    ev.op = "message" =>
        LET c == ev.chat
            M == {w \in StoredWords(data, c) : Contains(w, Lower(ev.text))}
        IN  M # {} =>
              \E w \in M :
                 /\ \A v \in M \ {w} : <<w, v>> \in older[c]
                 /\ Escalated(out) <=> FlagOf(data, c, w)

\* two filters matched, the later one by word order was inserted first, flags differ
C10_Witness ==
    /\ ev.op = "message" /\ ev.text = T_spammy
    /\ <<W_spam, W_am>> \in older[ev.chat]
    /\ StoredWords(data, ev.chat) = {W_spam, W_am}
    /\ FlagOf(data, ev.chat, W_spam) /\ ~FlagOf(data, ev.chat, W_am)
    /\ Escalated(out)

---------------------------------------------------------------------------
(* C3: for one user in one chat, counted within one run of the process     *)
(* from a message that found no window or an expired one, the first 4      *)
(* messages that reach the flood detector inside the window produce no     *)
(* mute, the 5th produces exactly one mute of that user and leaves the     *)
(* window at count=0, ts=now, and the message after it leaves the count    *)
(* at 1.                                                                   *)

FloodMessage(c, u) ==
    /\ ev.op = "message" /\ ev.chat = c /\ ev.user = u
    /\ Qualifies(ConfOf(data, c), ev.text)

WindowOf(c, u) == ConfOf(data, c).flood[Str(u)]

---------------------------------------------------------------------------
(* C4, as stated: with antispam on and no filters, whenever a user sends   *)
(* 5 link-free messages within 3 seconds in one chat, the 5th yields a     *)
(* mute that ends 3600 seconds after it, and the 6th yields no action.     *)

QuietChat(c) == ConfOf(data, c).filters = <<>>

---------------------------------------------------------------------------
(* C5: N escalations of one user in one chat whose handlers are in flight  *)
(* together, interleaved at their awaits, starting from a warn count of 0: *)
(* the stored count, in memory and in the file, is the number of handlers  *)
(* that have escalated, each of them got its own value 1..N, and once all  *)
(* have finished the user has been banned if N >= max_warns.               *)

Escalators == {h \in TaskIds : tasks[h].cur > 0}

CallsMade == UNION {Calls(tasks[h].made) : h \in TaskIds}

C5_NoLostIncrement ==
    \A c \in SpecChats :
        (running /\ ~Configuring) =>
            LET N == Cardinality(Escalators)
            IN  /\ WarnOf(data, c, ConcUser) = N
                /\ WarnOf(load_data(file).data, c, ConcUser) = N
                /\ {tasks[h].cur : h \in Escalators} = 1..N
                /\ (InFlight(tasks) = {} /\ N >= MaxWarnsOf(data, c))
                      => BanChatMember(ConcUser) \in CallsMade

\* every task has escalated and finished, by both paths, each while another was in flight
C5_Witness ==
    /\ InFlight(tasks) = {}
    /\ Escalators = TaskIds
    /\ \A h \in TaskIds : tasks[h].overlap
    /\ \E h \in TaskIds : tasks[h].op = "warn"
    /\ \E h \in TaskIds : tasks[h].op = "message"
    /\ \A c \in SpecChats : WarnOf(data, c, ConcUser) = MaxTasks
    /\ BanChatMember(ConcUser) \in CallsMade

---------------------------------------------------------------------------
(* C11: ensure_chat on a chat id that is not in the store adds an entry    *)
(* with max_warns=3, welcome_on=true, antispam_on=true, slowmode=0 and     *)
(* empty filters, warns and flood, and touches nothing else; on a chat id  *)
(* in the store it changes nothing and gives the entry that is there.      *)

C11_EnsureChatDefaults ==
    \A c \in GroupChats :
        LET d2 == ensure_chat(data, c)
            k  == Str(c)
        IN  IF k \in DOMAIN data.chats
            THEN d2 = data
            ELSE /\ DOMAIN d2.chats = DOMAIN data.chats \cup {k}
                 /\ \A j \in DOMAIN data.chats : d2.chats[j] = data.chats[j]
                 /\ d2.users = data.users /\ d2.groups = data.groups
                 /\ d2.chats[k].max_warns = 3
                 /\ d2.chats[k].welcome_on = TRUE
                 /\ d2.chats[k].antispam_on = TRUE
                 /\ d2.chats[k].slowmode = 0
                 /\ d2.chats[k].filters = <<>>
                 /\ DOMAIN d2.chats[k].warns = {}
                 /\ DOMAIN d2.chats[k].flood = {}

\* a store that holds one chat, changed from the defaults, and lacks another
C11_Witness ==
    \E c, c2 \in GroupChats :
        /\ Str(c) \in DOMAIN data.chats
        /\ data.chats[Str(c)].max_warns # 3
        /\ data.chats[Str(c)].filters # <<>>
        /\ DOMAIN data.chats[Str(c)].warns # {}
        /\ Str(c2) \notin DOMAIN data.chats
        /\ ensure_chat(data, c) = data

---------------------------------------------------------------------------
(* C12: max_warns >= 1 in every chat of every store reachable from the     *)
(* empty one by the commands, /setmaxwarns with any argument among them.   *)

C12_MaxWarnsAtLeastOne ==
    \A k \in DOMAIN data.chats : data.chats[k].max_warns >= 1

\* an admin's /setmaxwarns with a digit argument has been stored
C12_Witness ==
    /\ ev.op = "setmaxwarns" /\ ev.admin
    /\ Len(ev.args) > 0 /\ isdigit(ev.args[1])
    /\ \E c \in SpecChats : MaxWarnsOf(data, c) = int(ev.args[1])
    /\ data = load_data(file).data

---------------------------------------------------------------------------
(* C13: slowmode >= 0 in every chat of every store reachable from the      *)
(* empty one by the commands, /slowmode with any argument among them.      *)

C13_SlowmodeNonNegative ==
    \A k \in DOMAIN data.chats : data.chats[k].slowmode >= 0

\* an admin's /slowmode with an argument int() accepts has been stored
C13_Witness ==
    /\ ev.op = "slowmode" /\ ev.admin
    /\ Len(ev.args) > 0 /\ IntOk(ev.args[1])
    /\ \E c \in SpecChats : ConfOf(data, c).slowmode = IntOf(ev.args[1])
    /\ data = load_data(file).data

---------------------------------------------------------------------------
(* C14: an admin's /setmaxwarns with a missing or non-numeric value,       *)
(* /slowmode with a value that is neither a number nor "off", or /antispam *)
(* with a value other than on/off is answered by one reply, raises         *)
(* nothing, and leaves the store in memory and the file as they were.      *)

InvalidArgument(e) ==
    /\ e.admin
    /\ \/ e.op = "setmaxwarns" /\ (Len(e.args) = 0 \/ ~isdigit(e.args[1]))
       \/ /\ e.op = "slowmode" /\ Len(e.args) > 0
          /\ Lower(e.args[1]) # <<"o","f","f">> /\ ~IntOk(Lower(e.args[1]))
       \/ e.op = "antispam" /\ Len(e.args) > 0 /\ Lower(e.args[1]) \notin OnOff

Rejected(o) == Len(o) = 1 /\ o[1].call = "reply"

C14_InvalidArgumentRejected ==
    [][ InvalidArgument(ev') => (Rejected(out') /\ data' = data /\ file' = file) ]_vars

\* /slowmode with a word has been handled
C14_Witness ==
    /\ InvalidArgument(ev) /\ ev.op = "slowmode"
    /\ Raised("ValueError") \in Calls(out)

---------------------------------------------------------------------------
(* C15: /mute and /ban given a duration string parse_duration does not     *)
(* accept issue no restrict call and no ban call for the target user.      *)

MalformedDuration(e) ==
    /\ e.op \in {"mute", "ban"}
    /\ e.admin /\ e.target # NoUser
    /\ Len(e.args) > 0 /\ parse_duration(e.args[1]).none

ActsOn(o, u) ==
    \E i \in DOMAIN o :
        o[i].call \in {"restrict_chat_member", "ban_chat_member"} /\ o[i].user = u

C15_MalformedDurationRejected == MalformedDuration(ev) => ~ActsOn(out, ev.target)

\* /mute 10x has been handled: the target is muted with no end date
C15_Witness ==
    /\ MalformedDuration(ev) /\ ev.op = "mute"
    /\ ev.args[1] = <<"1","0","x">>
    /\ RestrictMute(ev.target, NoDate) \in Calls(out)

---------------------------------------------------------------------------
(* C16: when the caller of /warn, /resetwarns, /setmaxwarns, /addfilter,   *)
(* /rmfilter, /antispam, /slowmode, /mute or /ban is not an admin of the   *)
(* chat, or the lookup of the caller fails, the command replies "Admins    *)
(* only.", makes no other call, and leaves the store and the file as they  *)
(* were.                                                                   *)

Gated == {"warn", "resetwarns", "setmaxwarns", "addfilter", "rmfilter",
          "antispam", "slowmode", "mute", "ban"}

Refused(e) == e.op \in Gated /\ ~e.admin

---------------------------------------------------------------------------
(* C17: in every escalation, by /warn and by a filter with warn=true, the  *)
(* count the ban or the notice is about is in the data file when that call *)
(* is made: no ban or notice is sent for an increment that is not on disk. *)

OnDisk(x) == WarnOf(load_data(file).data, x[1], x[2]) >= x[3]

C17_DurableBeforeIssued ==
    [][ \A x \in issued' \ issued : OnDisk(x) ]_vars

\* a ban has been sent for a count the file holds
C17_Witness ==
    \E x \in issued :
        /\ OnDisk(x)
        /\ \E h \in TaskIds : BanChatMember(x[2]) \in Calls(tasks[h].made)

---------------------------------------------------------------------------
(* C18: when the process has died, between two steps of a handler or while *)
(* save_data() was writing, and is started again, the store load_data      *)
(* builds holds every warn count whose ban or notice had been sent.        *)

InMemory(x) == WarnOf(data, x[1], x[2]) >= x[3]

C18_NothingForgotten ==
    [][ (~running /\ running') => \A x \in issued : InMemory(x)' ]_vars

\* a restart after a death that found every sent count in the file
C18_Witness ==
    /\ running /\ ev.op = "main"
    /\ issued # {}
    /\ \A x \in issued : InMemory(x)

---------------------------------------------------------------------------
(* C19: the flood detector as a sliding window: with antispam on, when a   *)
(* user's last 5 counted messages in a chat lie inside an interval of 7    *)
(* time units and none of the first four was answered by a mute, the 5th   *)
(* is answered by a mute, whatever the user sent before.                   *)

FiveInWindow(q) ==
    /\ Len(q) = 5
    /\ q[5].t - q[1].t <= FLOOD_WINDOW
    /\ \A i \in 1..4 : ~q[i].muted

C19_SlidingWindow ==
    \A p \in Pairs : FiveInWindow(recent[p]) => recent[p][5].muted

\* five messages inside an interval of 7 whose 5th was answered by a mute
C19_Witness ==
    \E p \in Pairs :
        /\ FiveInWindow(recent[p])
        /\ recent[p][5].muted
        /\ recent[p][5].t > recent[p][1].t

---------------------------------------------------------------------------
(* C20: in telegram_admin_bot_full.py a group message of any sender, admin *)
(* or not, reply or not, whose first matching filter has warn=true is      *)
(* deleted and raises the warn count of its sender by exactly 1, with the  *)
(* notice or the ban of that sender; no other user's count changes.        *)

WarnFilterHit(c, u) ==
    /\ ev'.op = "message" /\ ev'.chat = c /\ ev'.user = u
    /\ MatchingItems(data, c, ev'.text) # {}
    /\ FirstItem(data, c, ev'.text).warn

C20_SenderEscalated ==
    [][\A c \in GroupChats, u \in Users :
         WarnFilterHit(c, u) =>
            /\ Deleted(out')
            /\ WarnOf(data', c, u) = WarnOf(data, c, u) + 1
            /\ Banned(out', u)
               \/ WarnedWith(out', u, WarnOf(data', c, u), MaxWarnsOf(data, c))
            /\ \A v \in Users \ {u} : WarnOf(data', c, v) = WarnOf(data, c, v)
      ]_vars

\* an admin's reply that holds a filtered word: the author of the other
\* message got the warning
C20_Witness ==
    /\ ev.op = "message" /\ ev.admin
    /\ ev.target \notin {NoUser, ev.user}
    /\ Deleted(out)
    /\ WarnOf(data, ev.chat, ev.target) > 0
    /\ WarnOf(data, ev.chat, ev.user) = 0
    /\ \E n \in 1..MaxWarnCount :
          WarnedWith(out, ev.target, n, MaxWarnsOf(data, ev.chat))

---------------------------------------------------------------------------
(* Steps of the message handler, told from a passing of time by the clock  *)

MessageStep(c, u) ==
    /\ ev'.op = "message" /\ ev'.chat = c /\ ev'.user = u
    /\ clock' = clock

FloodOf(d, c) == ConfOf(d, c).flood

\* the text holds one of the link patterns, in any case of the letters
LinkIn(text) == \E p \in LinkPatterns : Contains(p, Lower(text))

---------------------------------------------------------------------------
(* C21: a message that matches a filter is handled by the filter path      *)
(* alone: the flood windows of the chat are unchanged, no mute is issued   *)
(* and the link path is not taken, also when the text holds a link and     *)
(* when the message would have been the 5th of the window.                 *)

C21_FilterShortCircuits ==
    [][\A c \in GroupChats, u \in Users :
         (MessageStep(c, u) /\ MatchingItems(data, c, ev'.text) # {}) =>
            /\ FloodOf(data', c) = FloodOf(data, c)
            /\ Mutes(out') = {}
            /\ LogAction("link", u) \notin Calls(out')
            /\ Deleted(out')
      ]_vars

\* a filtered message with a link came when the sender's window stood at 4
C21_Witness ==
    /\ ev.op = "message" /\ ev.now = clock
    /\ MatchingItems(data, ev.chat, ev.text) # {} /\ LinkIn(ev.text)
    /\ ConfOf(data, ev.chat).antispam_on
    /\ Str(ev.user) \in DOMAIN FloodOf(data, ev.chat)
    /\ FloodOf(data, ev.chat)[Str(ev.user)].count = FLOOD_LIMIT - 1
    /\ Deleted(out) /\ Mutes(out) = {}

---------------------------------------------------------------------------
(* C22: with antispam on, a message that matches no filter and holds a     *)
(* link pattern is deleted and nothing else happens: no warn count         *)
(* changes, no ban and no mute is issued, and no flood window of the chat  *)
(* is advanced.                                                            *)

LinkOnly(c) ==
    /\ MatchingItems(data, c, ev'.text) = {}
    /\ ConfOf(data, c).antispam_on
    /\ LinkIn(ev'.text)

C22_LinkDeletedOnly ==
    [][\A c \in GroupChats, u \in Users :
         (MessageStep(c, u) /\ LinkOnly(c)) =>
            /\ Deleted(out')
            /\ Bans(out') = {} /\ Mutes(out') = {} /\ WarnNotices(out') = {}
            /\ WarnsOfChat(data', c) = WarnsOfChat(data, c)
            /\ FloodOf(data', c) = FloodOf(data, c)
      ]_vars

\* a link came when the sender's window stood at 4: deleted, window still at 4
C22_Witness ==
    /\ ev.op = "message" /\ ev.now = clock
    /\ MatchingItems(data, ev.chat, ev.text) = {} /\ LinkIn(ev.text)
    /\ ConfOf(data, ev.chat).antispam_on
    /\ Str(ev.user) \in DOMAIN FloodOf(data, ev.chat)
    /\ FloodOf(data, ev.chat)[Str(ev.user)].count = FLOOD_LIMIT - 1
    /\ out = <<DeleteMessage, LogAction("link", ev.user)>>

---------------------------------------------------------------------------
(* C23: while a chat has antispam off, no message is deleted for holding   *)
(* a link, no mute is issued and no flood window of the chat is created    *)
(* or changed; a message that matches no filter yields no action and       *)
(* leaves warns, flood and filters unchanged, and a message that matches   *)
(* a filter is still deleted.                                              *)

AntispamOff(c) == ~ConfOf(data, c).antispam_on

C23_AntispamOffInert ==
    [][\A c \in GroupChats, u \in Users :
         (MessageStep(c, u) /\ AntispamOff(c)) =>
            /\ Mutes(out') = {}
            /\ FloodOf(data', c) = FloodOf(data, c)
            /\ LogAction("link", u) \notin Calls(out')
            /\ MatchingItems(data, c, ev'.text) = {} =>
                  /\ out' = <<>>
                  /\ WarnsOfChat(data', c) = WarnsOfChat(data, c)
                  /\ ConfOf(data', c).filters = ConfOf(data, c).filters
            /\ MatchingItems(data, c, ev'.text) # {} => Deleted(out')
      ]_vars

\* antispam off, a filter stored: a link alone passed with no action
C23_Witness ==
    /\ ev.op = "message" /\ ev.now = clock
    /\ ~ConfOf(data, ev.chat).antispam_on
    /\ ConfOf(data, ev.chat).filters # <<>>
    /\ MatchingItems(data, ev.chat, ev.text) = {} /\ LinkIn(ev.text)
    /\ out = <<>>

---------------------------------------------------------------------------
(* C24: an escalation that issues the ban does not reset the warn count:   *)
(* the count is left at or above max_warns, it stays there through every   *)
(* step that is neither a /resetwarns nor a /setmaxwarns, and every        *)
(* escalation of a user whose count is at or above max_warns issues the    *)
(* ban again.                                                              *)

AtThreshold(d, c, u) == WarnOf(d, c, u) >= MaxWarnsOf(d, c)

C24_BanKeepsCount ==
    [][\A c \in GroupChats, u \in Users :
         /\ (EscalationStep(c, u) /\ Banned(out', u)) => AtThreshold(data', c, u)
         /\ (EscalationStep(c, u) /\ AtThreshold(data, c, u)) => Banned(out', u)
         /\ (AtThreshold(data, c, u) /\ ev'.op \notin {"resetwarns", "setmaxwarns"})
               => AtThreshold(data', c, u)
      ]_vars

\* a user already at the threshold was escalated once more and banned again
C24_Witness ==
    \E u \in Users :
        /\ \/ ev.op = "warn" /\ ev.target = u
           \/ ev.op = "message" /\ ev.user = u
        /\ WarnOf(data, ev.chat, u) > MaxWarnsOf(data, ev.chat)
        /\ MaxWarnsOf(data, ev.chat) = DEFAULT_MAX_WARNS - 1
        /\ Banned(out, u)

---------------------------------------------------------------------------
(* C25: from the same chat state and for the same user, a /warn of bot.py  *)
(* and a message of that user caught by a warn filter leave the same chat  *)
(* entry (the same warn counts) and give the same outcome: both ban, or    *)
(* both send the notice with the same count and max_warns.                 *)

ByWarn(c, u) == warn(data, file, c, TRUE, u)
ByFilter(c, u, text) == apply_filters_and_antispam(data, file, c, u, text, clock)

WarnFilterFirst(c, text) ==
    /\ MatchingItems(data, c, text) # {}
    /\ FirstItem(data, c, text).warn

\* the notices among the calls, by user, count and max_warns
NoticesOf(o) == {<<x.user, x.a, x.b>> : x \in WarnNotices(o)}

C25_PathsAgree ==
    \A c \in GroupChats, u \in Users, text \in Texts :
        (running /\ WarnFilterFirst(c, text)) =>
            LET a == ByWarn(c, u)
                b == ByFilter(c, u, text)
            IN  /\ ConfOf(a.data, c) = ConfOf(b.data, c)
                /\ WarnOf(a.data, c, u) = WarnOf(data, c, u) + 1
                /\ Banned(a.out, u) <=> Banned(b.out, u)
                /\ Banned(a.out, u) <=> NoticesOf(a.out) = {}
                /\ NoticesOf(a.out) = NoticesOf(b.out)
                /\ a.file = save_data(a.data)
                /\ b.file = save_data(b.data)

\* a warn filter is stored and the user stands one below a lowered
\* threshold after an escalation: either path would now ban
C25_Witness ==
    \E u \in Users, text \in Texts :
        /\ running /\ WarnFilterFirst(ev.chat, text)
        /\ \/ ev.op = "warn" /\ ev.target = u
           \/ ev.op = "message" /\ ev.user = u
        /\ WarnedWith(out, u, 1, 2)
        /\ Banned(ByWarn(ev.chat, u).out, u)
        /\ Banned(ByFilter(ev.chat, u, text).out, u)

---------------------------------------------------------------------------
(* C26: with the handlers of one user's messages in one chat interleaved   *)
(* at their awaits, a burst that reaches the count of 5 produces at most   *)
(* one mute, and a message handled while the calls of the flagged message  *)
(* are awaited is not flagged a second time and is not erased from the     *)
(* count by the reset that follows.                                        *)

\* the tasks that have issued the mute
Muting == {h \in TaskIds : Mutes(tasks[h].made) # {}}

\* the tasks whose message was counted while a flagged one awaited its calls
Overlapped == {h \in TaskIds : tasks[h].op = "flood" /\ tasks[h].overlap}

---------------------------------------------------------------------------
(* C27, as stated: for a user with a flood window, a message that reaches  *)
(* the detector at time now resets the window to count=1, ts=now exactly   *)
(* when now - ts > 7, and otherwise raises count by 1 and keeps ts; a      *)
(* message exactly 7 time units after ts counts inside the old window.     *)

Counted(c, u) ==
    /\ MessageStep(c, u)
    /\ Qualifies(ConfOf(data, c), ev'.text)
    /\ Str(u) \in DOMAIN FloodOf(data, c)

WindowBefore(c, u) == FloodOf(data, c)[Str(u)]
WindowAfter(c, u) == FloodOf(data', c)[Str(u)]
Expired(c, u) == ev'.now - WindowBefore(c, u).ts > 7

C27_ResetOrIncrement ==
    [][\A c \in GroupChats, u \in Users :
         Counted(c, u) =>
            IF Expired(c, u)
            THEN WindowAfter(c, u) = [count |-> 1, ts |-> ev'.now]
            ELSE WindowAfter(c, u) = [count |-> WindowBefore(c, u).count + 1,
                                      ts    |-> WindowBefore(c, u).ts]
      ]_vars

(* C27, amended: the same, except that a message which raises the count    *)
(* to 5 inside the window is answered by the mute and leaves the window    *)
(* at count=0, ts=now.                                                     *)

C27_ResetOrIncrementBelowLimit ==
    [][\A c \in GroupChats, u \in Users :
         Counted(c, u) =>
            IF Expired(c, u)
            THEN WindowAfter(c, u) = [count |-> 1, ts |-> ev'.now]
            ELSE IF WindowBefore(c, u).count + 1 < 5
            THEN WindowAfter(c, u) = [count |-> WindowBefore(c, u).count + 1,
                                      ts    |-> WindowBefore(c, u).ts]
            ELSE /\ WindowAfter(c, u) = [count |-> 0, ts |-> ev'.now]
                 /\ Mutes(out') # {}
      ]_vars

\* a message exactly 7 time units after ts was counted in the old window
C27_Witness ==
    /\ ev.op = "message" /\ ev.now = clock
    /\ Qualifies(ConfOf(data, ev.chat), ev.text)
    /\ Str(ev.user) \in DOMAIN FloodOf(data, ev.chat)
    /\ FloodOf(data, ev.chat)[Str(ev.user)].ts = ev.now - 7
    /\ FloodOf(data, ev.chat)[Str(ev.user)].count = 3
    /\ out = <<>>

---------------------------------------------------------------------------
(* C28: whenever a handler of bot.py has finished, the data file holds     *)
(* the in-memory store: every change the handler made has been written by  *)
(* a save_data() that ran after it.                                        *)

HandlerDone == running /\ ev.op \notin {"import", "main", "restart", "crash"}

C28_FileIsStore == HandlerDone => file = save_data(data)

\* a second message has been counted: the file, written at line 629 before
\* the count was raised, still holds the window of the first
C28_Witness ==
    /\ ev.op = "message" /\ ev.now = clock /\ out = <<>>
    /\ Str(ev.user) \in DOMAIN FloodOf(data, ev.chat)
    /\ FloodOf(data, ev.chat)[Str(ev.user)].count = 2
    /\ ~load_data(file).raised
    /\ Str(ev.user) \in DOMAIN FloodOf(load_data(file).data, ev.chat)
    /\ FloodOf(load_data(file).data, ev.chat)[Str(ev.user)].count = 1

---------------------------------------------------------------------------
(* C29: a save_data() that cannot open or write the file raises nothing    *)
(* to the handler that called it and is not tried again; the store in      *)
(* memory keeps the change, and the handler goes on to its ban or notice   *)
(* as it does after a write that succeeded.                                *)

\* the user an escalation is about
Subject(t) == IF t.op = "warn" THEN t.target ELSE t.user

\* the step of task h that stores the count and calls save_data(), where the
\* file does not hold the store afterwards
SaveFailed(h) ==
    /\ Saving(tasks[h])
    /\ tasks'[h].pc = "calls"
    /\ file' # save_data(data')

C29_SaveFailureSwallowed ==
    [][\A h \in TaskIds :
         SaveFailed(h) =>
            /\ running'
            /\ file' \in {file, FileGarbage}
            /\ WarnOf(data', tasks[h].chat, Subject(tasks[h]))
                  = WarnOf(data, tasks[h].chat, Subject(tasks[h])) + 1
            /\ tasks'[h].cur = WarnOf(data', tasks[h].chat, Subject(tasks[h]))
            /\ \E x \in Calls(tasks'[h].todo) : Verdict(x)
            /\ \A x \in Calls(tasks'[h].todo) : x.call # "raise"
      ]_vars

\* the write raised, and the handler has sent the ban or the notice for the
\* count that only the memory holds
C29_Witness ==
    /\ running /\ file = FileGarbage
    /\ \E h \in TaskIds :
          /\ tasks[h].pc = "done"
          /\ \E x \in Calls(tasks[h].made) : Verdict(x)
          /\ <<tasks[h].chat, Subject(tasks[h]), tasks[h].cur>> \in issued
          /\ WarnOf(data, tasks[h].chat, Subject(tasks[h])) = tasks[h].cur

---------------------------------------------------------------------------
(* C30: once the process serves, no message and no command removes a chat  *)
(* entry from the store, a user key from the warns of a chat or a user key *)
(* from the flood map of a chat: the key sets only grow, and /resetwarns   *)
(* stores 0 under the key.                                                 *)

\* the step is a handler's, not the start of a process
HandlerStep == running /\ running' /\ ev'.op \notin {"main", "restart", "crash"}

C30_KeysOnlyGrow ==
    [][HandlerStep =>
         /\ DOMAIN data.chats \subseteq DOMAIN data'.chats
         /\ \A k \in DOMAIN data.chats :
               /\ DOMAIN data.chats[k].warns \subseteq DOMAIN data'.chats[k].warns
               /\ DOMAIN data.chats[k].flood \subseteq DOMAIN data'.chats[k].flood
         /\ \A c \in GroupChats, u \in Users :
               (ev'.op = "resetwarns" /\ ev'.chat = c /\ ev'.target = u)
                  => /\ Str(u) \in DOMAIN WarnsOfChat(data', c)
                     /\ WarnsOfChat(data', c)[Str(u)] = 0
      ]_vars

\* a /resetwarns of a user who has a flood window: both keys are there
C30_Witness ==
    /\ ev.op = "resetwarns" /\ ev.target # NoUser
    /\ out = <<Reply("Warnings reset.")>>
    /\ Str(ev.target) \in DOMAIN WarnsOfChat(data, ev.chat)
    /\ WarnsOfChat(data, ev.chat)[Str(ev.target)] = 0
    /\ Str(ev.target) \in DOMAIN FloodOf(data, ev.chat)
    /\ \E u \in Users \ {ev.target} : WarnOf(data, ev.chat, u) > 0

---------------------------------------------------------------------------
(* C31: every run of the message handler and every admin command for chat  *)
(* A leaves the entry of every other chat as it was, and a message of user *)
(* v changes at most warns[v] and flood[v] of chat A: the settings, the    *)
(* filters and the warn counts and flood windows of the other users stay;  *)
(* also with the handlers of different chats interleaved at their awaits.  *)

\* the entry of chat c in the store, if there is one
Entry(d, c) == IF ChatKey(c) \in DOMAIN d.chats THEN <<d.chats[ChatKey(c)]>> ELSE <<>>

Rest(m, k) == [x \in DOMAIN m \ {k} |-> m[x]]

\* the configuration of chat c without what it holds about user v
Frame(d, c, v) ==
    [ConfOf(d, c) EXCEPT !.warns = Rest(@, Str(v)), !.flood = Rest(@, Str(v))]

\* a step of a handler that runs from its start to its return
WholeHandler == running /\ running' /\ tasks' = tasks

C31_OtherChatsAndUsersKept ==
    [][/\ \A c \in GroupChats :
             (WholeHandler /\ ev'.chat # c) => Entry(data', c) = Entry(data, c)
       /\ \A c \in GroupChats, v \in Users :
             (WholeHandler /\ ev'.op = "message" /\ ev'.chat = c /\ ev'.user = v)
                => Frame(data', c, v) = Frame(data, c, v)
       /\ \A h \in TaskIds :
             tasks'[h] # tasks[h] =>
                /\ \A c \in GroupChats \ {tasks'[h].chat} :
                      Entry(data', c) = Entry(data, c)
                /\ Frame(data', tasks'[h].chat, tasks'[h].user)
                      = Frame(data, tasks'[h].chat, tasks'[h].user)
      ]_vars

\* the two messages were in flight together and both escalated, in chats
\* that hold a count and a window of the other user
C31_Witness ==
    /\ tasks[1].cur > 0 /\ tasks[2].cur > 0
    /\ tasks[1].overlap \/ tasks[2].overlap
    /\ tasks[1].chat # tasks[2].chat
    /\ WarnOf(data, tasks[1].chat, tasks[2].user) > 0
    /\ Str(tasks[2].user) \in DOMAIN FloodOf(data, tasks[1].chat)
    /\ WarnOf(data, tasks[1].chat, tasks[1].user) = tasks[1].cur
    /\ WarnOf(data, tasks[2].chat, tasks[2].user) = tasks[2].cur

---------------------------------------------------------------------------
(* C32, as stated: /resetwarns by an admin for user u sets warns[u] of the *)
(* chat to exactly 0, saves it, and leaves every other warn count, the     *)
(* flood map, the filters and the settings as they were; the escalation    *)
(* of u that comes next gives the count 1.  With no user resolved the      *)
(* command changes nothing.                                                *)

ResetStep(c, u) ==
    ev'.op = "resetwarns" /\ ev'.admin /\ ev'.chat = c /\ ev'.target = u

\* /resetwarns of u in c was the last command handled
JustReset(c, u) ==
    ev.op = "resetwarns" /\ ev.admin /\ ev.chat = c /\ ev.target = u

ResetOfUser(c, u) ==
    /\ ResetStep(c, u) =>
          /\ ConfOf(data', c) = [ConfOf(data, c) EXCEPT !.warns = Put(@, Str(u), 0)]
          /\ file' = save_data(data')
          /\ out' = <<Reply("Warnings reset.")>>
    /\ (JustReset(c, u) /\ EscalationStep(c, u)) => WarnOf(data', c, u) = 1

---------------------------------------------------------------------------
(* C33: with the handlers of bot.py run one at a time, every flood window  *)
(* in the store between two handlers has 0 <= count <= 4: the handler that *)
(* raises a count to 5 sets it back before it returns.                     *)

Windows(d) ==
    UNION { {d.chats[k].flood[u] : u \in DOMAIN d.chats[k].flood} : k \in DOMAIN d.chats }

C33_CountBelowLimit == \A w \in Windows(data) : w.count \in 0..4

\* the 5th message of a window was handled after time had passed: the mute
\* went out and the window is back at 0, with one of 4 messages before it
C33_Witness ==
    /\ ev.op = "message" /\ ev.now = clock /\ clock > 0
    /\ Mutes(out) # {}
    /\ FloodOf(data, ev.chat)[Str(ev.user)] = [count |-> 0, ts |-> clock]
    /\ burst[<<ev.chat, ev.user>>].pos = 5
    /\ burst[<<ev.chat, ev.user>>].t0 < clock

---------------------------------------------------------------------------
(* C34: in every reachable state of bot.py, a user whose warn count in a   *)
(* chat is >= the max_warns of the chat has had a ban call issued for them *)
(* in that chat since their count was last reset, whatever the sequence of *)
(* /warn, filter matches, /resetwarns and /setmaxwarns.                    *)

C34_AtThresholdWasBanned ==
    \A c \in GroupChats, u \in Users :
        (running /\ ChatKey(c) \in DOMAIN data.chats /\ AtThreshold(data, c, u))
            => <<c, u>> \in bans

\* /setmaxwarns has brought the threshold down to a count that was only
\* warned about
C34_Witness ==
    \E u \in Users :
        /\ ev.op = "setmaxwarns" /\ out = <<Reply("Max warns set.")>>
        /\ WarnOf(data, ev.chat, u) = 2
        /\ MaxWarnsOf(data, ev.chat) = 2
        /\ <<ev.chat, u>> \notin bans

---------------------------------------------------------------------------
(* C35, as stated: for the filter commands of an admin, /addfilter w twice *)
(* with the same flag equals doing it once; /addfilter of a stored word    *)
(* replaces its warn flag only and keeps its place in the match order;     *)
(* /addfilter w then /rmfilter w on a set without w restores the set;      *)
(* /rmfilter of a word that is not stored changes neither the store nor    *)
(* the data file.                                                          *)

FiltersOf(d, c) == ConfOf(d, c).filters

FilterStep(op, c) ==
    ev'.op = op /\ ev'.chat = c /\ ev'.admin /\ Len(ev'.args) > 0

GivenWord(e) == Lower(e.args[1])
GivenFlag(e) == Len(e.args) > 1 /\ Lower(e.args[2]) = <<"w","a","r","n">>

\* the place of word w in the match order
PlaceOf(fs, w) == CHOOSE i \in DOMAIN fs : fs[i].word = w

\* /addfilter: a stored word keeps its place and takes the flag, a new one
\* goes to the end; the same command handled twice in a row equals once
AddFilterLaw(c) ==
    LET w == GivenWord(ev')
        fs == FiltersOf(data, c)
        gs == FiltersOf(data', c)
    IN  /\ w \in FilterWords(fs) =>
              /\ Len(gs) = Len(fs)
              /\ \A i \in DOMAIN fs :
                    /\ gs[i].word = fs[i].word
                    /\ gs[i].warn = IF fs[i].word = w THEN GivenFlag(ev') ELSE fs[i].warn
        /\ w \notin FilterWords(fs) => gs = Append(fs, [word |-> w, warn |-> GivenFlag(ev')])
        /\ file' = save_data(data')
        /\ ev = ev' => (data' = data /\ file' = file)

\* /rmfilter of a stored word: that item goes, the others keep their order
RmFilterLaw(c) ==
    LET w == GivenWord(ev')
        fs == FiltersOf(data, c)
        gs == FiltersOf(data', c)
    IN  w \in FilterWords(fs) =>
           /\ Len(gs) = Len(fs) - 1
           /\ \A i \in DOMAIN gs : gs[i] = fs[IF i < PlaceOf(fs, w) THEN i ELSE i + 1]
           /\ file' = save_data(data')

\* /addfilter w and then /rmfilter w, from a state whose set has no w
AddThenRm(c, args) ==
    LET a == addfilter(data, file, c, TRUE, args)
    IN  rmfilter(a.data, a.file, c, TRUE, <<args[1]>>)

AddRmRestores ==
    \A c \in SpecChats, args \in FilterArgs :
        (running /\ Lower(args[1]) \notin StoredWords(data, c)) =>
            /\ ConfOf(AddThenRm(c, args).data, c) = ConfOf(data, c)
            /\ AddThenRm(c, args).out = <<Reply("Filter removed.")>>

C35_FilterCommandLaws ==
    /\ [](AddRmRestores)
    /\ [][\A c \in GroupChats :
            /\ FilterStep("addfilter", c) => AddFilterLaw(c)
            /\ FilterStep("rmfilter", c) =>
                  /\ RmFilterLaw(c)
                  /\ GivenWord(ev') \notin StoredWords(data, c)
                        => (data' = data /\ file' = file)
         ]_vars

(* C35, amended: /rmfilter of a word that is not stored changes no filter, *)
(* no count, no window and no setting and does not write the data file;    *)
(* what it may change is that a chat not yet in the store gets its entry   *)
(* of defaults from ensure_chat.                                           *)

C35_FilterCommandLawsOrNewEntry ==
    /\ [](AddRmRestores)
    /\ [][\A c \in GroupChats :
            /\ FilterStep("addfilter", c) => AddFilterLaw(c)
            /\ FilterStep("rmfilter", c) =>
                  /\ RmFilterLaw(c)
                  /\ GivenWord(ev') \notin StoredWords(data, c) =>
                        /\ file' = file
                        /\ data'.users = data.users /\ data'.groups = data.groups
                        /\ DOMAIN data'.chats = DOMAIN data.chats \cup {ChatKey(c)}
                        /\ \A c2 \in GroupChats : ConfOf(data', c2) = ConfOf(data, c2)
         ]_vars

\* the first of two stored words was given again, in another case and with
\* the other flag: it is still the first, now with warn
C35_Witness ==
    /\ ev.op = "addfilter" /\ ev.args = <<W_SPAM, W_warn>>
    /\ Len(FiltersOf(data, ev.chat)) = 2
    /\ FiltersOf(data, ev.chat)[1] = [word |-> W_spam, warn |-> TRUE]
    /\ <<W_spam, W_am>> \in older[ev.chat]
    /\ file = save_data(data)

---------------------------------------------------------------------------
(* C36: in apply_filters_and_antispam of bot.py the calls made for a group *)
(* message and the store it leaves depend on the configuration of the      *)
(* chat, the sender's id, the text and the time, and not on whether the    *)
(* sender is an admin: handled for a sender of any other status, the same  *)
(* message gives the same calls, the same store and the same file.         *)

\* the run of the handler on the message of the step, had the sender the
\* member status st
RunAs(st) ==
    handle_message(data, file, ev'.chat, ev'.user, st, ev'.text, ev'.now)

---------------------------------------------------------------------------
(* C37: after load_data on any file content, well-formed JSON whose top    *)
(* level is no mapping or whose chats, users or groups is no mapping       *)
(* included, the store has chats, users and groups as mappings, and        *)
(* ensure_chat and touch_user_and_chat_for_stats complete on it: no        *)
(* handler ends in a TypeError.                                            *)

C37_LoadedStoreIsMappings ==
    /\ running => WellFormed(data)
    /\ \A i \in DOMAIN out : out[i] # Raised("TypeError")

\* {"chats": null} was loaded and /addfilter ended in ensure_chat's TypeError
C37_Witness ==
    /\ running
    /\ file.kind = "object" /\ file.chats.json = "null"
    /\ ~IsMapping(data.chats)
    /\ ev.op = "addfilter"
    /\ out = <<Raised("TypeError")>>

---------------------------------------------------------------------------
(* C38: handle_button_press of boot.py keeps one cooldown for all users. A *)
(* press is accepted only if its timestamp is at least 3 seconds after     *)
(* LAST_REQUEST_TIME; an accepted press sets LAST_REQUEST_TIME to its own  *)
(* timestamp and a rejected one leaves it unchanged. So LAST_REQUEST_TIME  *)
(* never decreases and any two accepted presses have timestamps at least 3 *)
(* seconds apart, also when the handlers interleave at the await.          *)

Accepted == {h \in TaskIds : presses[h].pc = "accepted"}

Resumed(h, pc) == presses[h].pc = "answer" /\ presses'[h].pc = pc

AcceptedApart ==
    \A h \in Accepted : \A k \in Accepted \ {h} :
        \/ presses[h].current_time - presses[k].current_time >= COOLDOWN_TIME
        \/ presses[k].current_time - presses[h].current_time >= COOLDOWN_TIME

CooldownStep ==
    /\ LAST_REQUEST_TIME' >= LAST_REQUEST_TIME
    /\ \A h \in TaskIds :
          /\ Resumed(h, "accepted") =>
                /\ presses[h].current_time >= LAST_REQUEST_TIME + COOLDOWN_TIME
                /\ LAST_REQUEST_TIME' = presses[h].current_time
          /\ Resumed(h, "rejected") => LAST_REQUEST_TIME' = LAST_REQUEST_TIME

C38_GlobalCooldown == [](AcceptedApart) /\ [][CooldownStep]_vars

\* press 1 read a time that the initial LAST_REQUEST_TIME lets through, press
\* 2 came later and was resumed first: 2 is accepted and 1 rejected
C38_Witness ==
    /\ presses[1].pc = "rejected" /\ presses[2].pc = "accepted"
    /\ presses[3].pc = "idle"
    /\ presses[1].current_time < presses[2].current_time
    /\ ~TooSoon(presses[1].current_time, 0)
    /\ LAST_REQUEST_TIME = presses[2].current_time

====
